---- MODULE Spec2Model ----
(***************************************************************************)
(* A model of the mal-rust interpreter core: the value model (types.rs),   *)
(* the environment chain (types/env.rs), the evaluator (eval.rs) and the   *)
(* native functions (eval/builtin.rs), driven by the read-eval-print loop  *)
(* of main.rs, and the reader (reader.rs) that turns the text of a line    *)
(* into the forms eval is given.                                           *)
(*                                                                         *)
(* Frames live in an arena `heap`; an Environment (an Rc in the source) is *)
(* the index of its frame, so two holders of the same index share the      *)
(* frame exactly as two clones of an Rc do.  eval is a recursive operator  *)
(* that threads the arena through every call it makes and records every    *)
(* call of eval (form, frame, arena before, outcome, arena after) in a     *)
(* trace, so that properties of nested calls are properties of calls that  *)
(* really happened.                                                        *)
(*                                                                         *)
(* Four specifications share the variables: Spec evaluates forms one after *)
(* the other in the root frame, ReaderSpec types a line character by       *)
(* character and enters it, PrintSpec enters the printed text of an atom,  *)
(* and NativeSpec enters the text of a call of a native function.          *)
(***************************************************************************)
EXTENDS Integers, Sequences, FiniteSets, TLC

VARIABLES heap, calls, alive, line, parsed, overflow_checks

svars == <<heap, calls, alive, line, parsed, overflow_checks>>

\* Depth of nested eval calls after which the host call stack is exhausted.
MaxDepth == 9
\* Largest number of frames alive between two top-level forms.
MaxFrames == 3
\* Largest number of characters of a line typed at the prompt.
MaxLine == 4
\* Width in bits of the integer type.  MalAtom::Int holds an i64; the model
\* keeps the two's-complement arithmetic and takes the width as a bound.
IntBits == 6

(***************************************************************************)
(* Values (types.rs: MalVal, MalAtom, MalFn)                               *)
(***************************************************************************)
Nil == [tag |-> "Nil"]
True == [tag |-> "True"]
False == [tag |-> "False"]
Sym(s) == [tag |-> "Sym", s |-> s]
Str(s) == [tag |-> "Str", s |-> s]
MalInt(i) == [tag |-> "Int", i |-> i]
List(seq) == [tag |-> "List", l |-> seq]
Vector(seq) == [tag |-> "Vector", l |-> seq]
AssocArray(seq) == [tag |-> "AssocArray", l |-> seq]
MalFn(env, body, binds) == [tag |-> "Fn", env |-> env, body |-> body, binds |-> binds]

\* impl From<bool> for MalAtom
FromBool(b) == IF b THEN True ELSE False

(***************************************************************************)
(* Errors (types.rs: EvalError) and the outcomes of a call                 *)
(***************************************************************************)
SymbolNotFound(s) == [tag |-> "SymbolNotFound", name |-> s]
FunctionUndefined(s) == [tag |-> "FunctionUndefined", name |-> s]
\* BadFunctionDesignator carries the name of the symbol (eval.rs:34) or the
\* printed designator (eval.rs:50); the printed text is kept as the value.
BadFunctionDesignator(s) == [tag |-> "BadFunctionDesignator", name |-> s]
BadFunctionDesignatorOf(v) == [tag |-> "BadFunctionDesignator", shown |-> v]
NotANumber == [tag |-> "NotANumber"]
NotASymbol == [tag |-> "NotASymbol"]
NotAList == [tag |-> "NotAList"]
InvalidArgs == [tag |-> "InvalidArgs"]

\* A call ends with a value ("Ok"), with an EvalError ("Err"), or it ends the
\* process ("Abort": a panic, or the exhaustion of the call stack).
Ok(v, w) == [st |-> "Ok", val |-> v, w |-> w]
Err(e, w) == [st |-> "Err", val |-> e, w |-> w]
Abort(m, w) == [st |-> "Abort", val |-> [tag |-> "Panic", msg |-> m], w |-> w]

(***************************************************************************)
(* Environment (types/env.rs)                                              *)
(***************************************************************************)
\* The names builtin::defaults() registers.
Builtins == {"+", "-", "*", "=", ">", ">=", "<", "<=", "list", "list?", "empty?", "count"}

EmptyData == [n \in {} |-> Nil]

\* EnvironmentBuilder::new().with_parent(parent).build(): the frame appended
\* to the arena; parent 0 is None.
NewFrame(parent, builtin) == [parent |-> parent, builtin |-> builtin, data |-> EmptyData]

\* Environment::set
set(env, sym_name, val, h) ==
    [h EXCEPT ![env].data =
        [n \in (DOMAIN @) \cup {sym_name} |-> IF n = sym_name THEN val ELSE @[n]]]

\* Environment::find: the nearest frame that holds the name in data or builtin;
\* 0 is None.
RECURSIVE find(_, _, _)
find(env, sym_name, h) ==
    IF sym_name \in DOMAIN h[env].data \/ sym_name \in h[env].builtin
    THEN env
    ELSE IF h[env].parent # 0
         THEN find(h[env].parent, sym_name, h)
         ELSE 0

\* EnvVal, and None
NoneVal == [k |-> "None"]
NativeFnVal(f) == [k |-> "NativeFn", f |-> f]
ValVal(v) == [k |-> "Val", v |-> v]

\* Environment::get
get(env, sym_name, h) ==
    LET e == find(env, sym_name, h)
    IN  IF e = 0 THEN NoneVal
        ELSE IF sym_name \in h[e].builtin THEN NativeFnVal(sym_name)
        ELSE ValVal(h[e].data[sym_name])

(***************************************************************************)
(* Native functions (eval/builtin.rs).  A native returns [st, val].        *)
(***************************************************************************)
NOk(v) == [st |-> "Ok", val |-> v]
NErr(e) == [st |-> "Err", val |-> e]
NAbort(m) == [st |-> "Abort", val |-> [tag |-> "Panic", msg |-> m]]

\* builtin::into_int, as a test
is_int(v) == v.tag = "Int"

\* i64::MIN and i64::MAX
MinInt == -(2 ^ (IntBits - 1))
MaxInt == 2 ^ (IntBits - 1) - 1

in_i64(x) == x \in MinInt..MaxInt

\* The value an operation on i64 leaves when its result x does not fit and
\* the build carries no overflow checks.
wrap(x) == ((x - MinInt) % (2 ^ IntBits)) + MinInt

RECURSIVE SumSeq(_)
SumSeq(xs) == IF Len(xs) = 0 THEN 0 ELSE Head(xs).i + SumSeq(Tail(xs))

RECURSIVE ProdSeq(_)
ProdSeq(xs) == IF Len(xs) = 0 THEN 1 ELSE Head(xs).i * ProdSeq(Tail(xs))

\* The loops of add, sub and mul return NotANumber at the first argument that
\* is not an Int, whatever was accumulated before it.
AllInts(args) == \A i \in 1..Len(args) : is_int(args[i])

\* add: the loop over the arguments.  An operation whose result does not fit
\* i64 panics in a build with overflow checks and wraps in one without.
RECURSIVE add_loop(_, _)
add_loop(args, acc) ==
    IF Len(args) = 0 THEN NOk(MalInt(acc))
    ELSE IF ~is_int(Head(args)) THEN NErr(NotANumber)
    ELSE LET r == acc + Head(args).i
         IN  IF overflow_checks /\ ~in_i64(r) THEN NAbort("attempt to add with overflow")
             ELSE add_loop(Tail(args), wrap(r))

add(args) == add_loop(args, 0)

\* sub leaving a single argument as it is.
sub_keep_single(args) ==
    IF ~AllInts(args) THEN NErr(NotANumber)
    ELSE IF Len(args) = 0 THEN NOk(MalInt(0))
    ELSE NOk(MalInt(wrap(Head(args).i - SumSeq(Tail(args)))))

\* sub: the loop over the arguments, then the negation of a single one.
RECURSIVE sub_loop(_, _, _, _)
sub_loop(args, first, acc, count) ==
    IF Len(args) = 0
    THEN IF count = 1
         THEN IF overflow_checks /\ ~in_i64(-acc)
              THEN NAbort("attempt to negate with overflow")
              ELSE NOk(MalInt(wrap(-acc)))
         ELSE NOk(MalInt(acc))
    ELSE IF ~is_int(Head(args)) THEN NErr(NotANumber)
    ELSE IF first THEN sub_loop(Tail(args), FALSE, Head(args).i, count + 1)
    ELSE LET r == acc - Head(args).i
         IN  IF overflow_checks /\ ~in_i64(r)
             THEN NAbort("attempt to subtract with overflow")
             ELSE sub_loop(Tail(args), FALSE, wrap(r), count + 1)

sub(args) == sub_loop(args, TRUE, 0, 0)

RECURSIVE mul_loop(_, _)
mul_loop(args, acc) ==
    IF Len(args) = 0 THEN NOk(MalInt(acc))
    ELSE IF ~is_int(Head(args)) THEN NErr(NotANumber)
    ELSE LET r == acc * Head(args).i
         IN  IF overflow_checks /\ ~in_i64(r)
             THEN NAbort("attempt to multiply with overflow")
             ELSE mul_loop(Tail(args), wrap(r))

mul(args) == mul_loop(args, 1)

\* The derived PartialEq of MalVal, MalFn, Environment and EnvironmentInner:
\* "T" equal, "F" not equal, "O" the comparison exhausts the call stack.  An
\* Environment is compared by the contents of its frame (Rc and RefCell compare
\* what they hold), field by field: parent, builtin, data.  The order in which
\* a HashMap compares its entries is unspecified, which matters only where one
\* entry differs and the comparison of another does not terminate; no
\* comparison made by the forms evaluated here meets that case ("O" stands
\* for it).
RECURSIVE val_eq(_, _, _, _), seq_eq(_, _, _, _), env_eq(_, _, _, _)
val_eq(a, b, h, fuel) ==
    IF fuel = 0 THEN "O"
    ELSE IF a.tag # b.tag THEN "F"
    ELSE IF a.tag \in {"Nil", "True", "False"} THEN "T"
    ELSE IF a.tag \in {"Sym", "Str"} THEN (IF a.s = b.s THEN "T" ELSE "F")
    ELSE IF a.tag = "Int" THEN (IF a.i = b.i THEN "T" ELSE "F")
    ELSE IF a.tag \in {"List", "Vector", "AssocArray"}
         THEN (IF Len(a.l) # Len(b.l) THEN "F" ELSE seq_eq(a.l, b.l, h, fuel - 1))
    ELSE LET e == env_eq(a.env, b.env, h, fuel - 1)
         IN  IF e # "T" THEN e
             ELSE LET r == val_eq(a.body, b.body, h, fuel - 1)
                  IN  IF r # "T" THEN r
                      ELSE IF a.binds = b.binds THEN "T" ELSE "F"

seq_eq(xs, ys, h, fuel) ==
    IF Len(xs) = 0 THEN "T"
    ELSE LET r == val_eq(Head(xs), Head(ys), h, fuel)
         IN  IF r # "T" THEN r ELSE seq_eq(Tail(xs), Tail(ys), h, fuel)

env_eq(e1, e2, h, fuel) ==
    IF fuel = 0 THEN "O"
    ELSE LET f1 == h[e1]
             f2 == h[e2]
             p == IF f1.parent = 0 /\ f2.parent = 0 THEN "T"
                  ELSE IF f1.parent = 0 \/ f2.parent = 0 THEN "F"
                  ELSE env_eq(f1.parent, f2.parent, h, fuel - 1)
         IN  IF p # "T" THEN p
             ELSE IF f1.builtin # f2.builtin THEN "F"
             ELSE IF DOMAIN f1.data # DOMAIN f2.data THEN "F"
             ELSE LET R == {val_eq(f1.data[k], f2.data[k], h, fuel - 1) : k \in DOMAIN f1.data}
                  IN  IF "O" \in R THEN "O" ELSE IF "F" \in R THEN "F" ELSE "T"

eq(args, h) ==
    IF Len(args) # 2 THEN NErr(InvalidArgs)
    ELSE LET r == val_eq(args[1], args[2], h, MaxDepth)
         IN  IF r = "O" THEN NAbort("stack overflow") ELSE NOk(FromBool(r = "T"))

\* def_int_op! looking at the types of the first two arguments before the
\* number of arguments.
def_int_op_types_first(op, args) ==
    IF Len(args) >= 1 /\ ~is_int(args[1]) THEN NErr(NotANumber)
    ELSE IF Len(args) >= 2 /\ ~is_int(args[2]) THEN NErr(NotANumber)
    ELSE IF Len(args) # 2 THEN NErr(InvalidArgs)
    ELSE LET arg0 == args[1].i
             arg1 == args[2].i
         IN  NOk(FromBool(CASE op = ">" -> arg0 > arg1
                            [] op = ">=" -> arg0 >= arg1
                            [] op = "<" -> arg0 < arg1
                            [] op = "<=" -> arg0 <= arg1))

\* def_int_op!: the four integer comparisons
def_int_op(op, args) ==
    IF Len(args) # 2 THEN NErr(InvalidArgs)
    ELSE IF ~is_int(args[1]) THEN NErr(NotANumber)
    ELSE IF ~is_int(args[2]) THEN NErr(NotANumber)
    ELSE LET arg0 == args[1].i
             arg1 == args[2].i
         IN  NOk(FromBool(CASE op = ">" -> arg0 > arg1
                            [] op = ">=" -> arg0 >= arg1
                            [] op = "<" -> arg0 < arg1
                            [] op = "<=" -> arg0 <= arg1))

gt(args) == def_int_op(">", args)
gte(args) == def_int_op(">=", args)
lt(args) == def_int_op("<", args)
lte(args) == def_int_op("<=", args)

builtin_list(args) == NOk(List(args))

count(args) ==
    IF Len(args) # 1 THEN NErr(InvalidArgs)
    ELSE IF args[1].tag = "List" THEN NOk(MalInt(Len(args[1].l)))
    ELSE NErr(NotAList)

is_empty(args) ==
    IF Len(args) # 1 THEN NErr(InvalidArgs)
    ELSE IF args[1].tag = "List" THEN NOk(FromBool(Len(args[1].l) = 0))
    ELSE NErr(NotAList)

is_list(args) ==
    IF Len(args) # 1 THEN NErr(InvalidArgs)
    ELSE NOk(FromBool(args[1].tag = "List"))

\* builtin::defaults(): the function registered under each name, called.
defaults(f, args, h) ==
    CASE f = "+" -> add(args)
      [] f = "-" -> sub(args)
      [] f = "*" -> mul(args)
      [] f = "=" -> eq(args, h)
      [] f = ">" -> gt(args)
      [] f = ">=" -> gte(args)
      [] f = "<" -> lt(args)
      [] f = "<=" -> lte(args)
      [] f = "list" -> builtin_list(args)
      [] f = "list?" -> is_list(args)
      [] f = "empty?" -> is_empty(args)
      [] f = "count" -> count(args)

(***************************************************************************)
(* Evaluator (eval.rs).  w = [h, log] is the arena and the trace of the    *)
(* calls of eval completed so far; a call returns [st, val, w].  fuel is   *)
(* what is left of the host call stack.                                    *)
(***************************************************************************)
IsSym(v, name) == v.tag = "Sym" /\ v.s = name

\* One completed call of eval: the form, the frame it was evaluated in, the
\* arena before and after, the outcome, and the nesting depth of the call.
CallRec(ast, env, w, r, fuel) ==
    [ast |-> ast, env |-> env, hb |-> w.h, st |-> r.st, val |-> r.val,
     ha |-> r.w.h, depth |-> MaxDepth - fuel]

RECURSIVE eval(_, _, _, _), eval_match(_, _, _, _), eval_ast(_, _, _, _),
          eval_list(_, _, _, _, _), eval_apply(_, _, _, _), call_fn(_, _, _, _, _),
          handle_def(_, _, _, _), handle_let(_, _, _, _),
          let_loop(_, _, _, _, _), handle_fn(_, _, _, _),
          handle_do(_, _, _, _), do_loop(_, _, _, _, _)

\* eval.rs:28-38: the evaluated head is a symbol
call_sym(sym_name, list, env, w) ==
    LET env_val == get(env, sym_name, w.h)
    IN  IF env_val.k # "None"
        THEN IF env_val.k = "NativeFn"
             THEN LET n == defaults(env_val.f, list, w.h)
                  IN  [st |-> n.st, val |-> n.val, w |-> w]
             ELSE Err(BadFunctionDesignator(sym_name), w)
        ELSE Err(FunctionUndefined(sym_name), w)

\* eval.rs:45-47: child_env.set(s, v) for the zipped parameters and arguments
RECURSIVE bind_params(_, _, _, _)
bind_params(child_env, binds, list, h) ==
    IF Len(binds) = 0 \/ Len(list) = 0 THEN h
    ELSE bind_params(child_env, Tail(binds), Tail(list),
                     set(child_env, Head(binds), Head(list), h))

\* call_fn with the new frame made a child of the frame of the call site
\* (dynamic instead of lexical scope).
call_fn_dynamic(f, list, env, w, fuel) ==
    IF Len(f.binds) # Len(list) THEN Err(InvalidArgs, w)
    ELSE LET child_env == Len(w.h) + 1
             h1 == Append(w.h, NewFrame(env, {}))
             h2 == bind_params(child_env, f.binds, list, h1)
         IN  eval(f.body, child_env, [w EXCEPT !.h = h2], fuel)

\* eval.rs:39-48: the evaluated head is a closure; env is the frame of the
\* call site, which the code does not use here.
call_fn(f, list, env, w, fuel) ==
    IF Len(f.binds) # Len(list) THEN Err(InvalidArgs, w)
    ELSE LET child_env == Len(w.h) + 1
             h1 == Append(w.h, NewFrame(f.env, {}))
             h2 == bind_params(child_env, f.binds, list, h1)
         IN  eval(f.body, child_env, [w EXCEPT !.h = h2], fuel)

\* eval_apply giving the evaluated list back when its head is no function.
eval_apply_data(list, env, w, fuel) ==
    LET evaluated == eval_ast(List(list), env, w, fuel)
    IN  IF evaluated.st # "Ok" THEN evaluated
        ELSE IF evaluated.val.tag = "List"
        THEN LET sym == Head(evaluated.val.l)
                 rest == Tail(evaluated.val.l)
             IN  IF sym.tag = "Sym" THEN call_sym(sym.s, rest, env, evaluated.w)
                 ELSE IF sym.tag = "Fn" THEN call_fn(sym, rest, env, evaluated.w, fuel)
                 ELSE evaluated
        ELSE Abort("list evaluated to non list", evaluated.w)

\* eval.rs:23-55: generic application
eval_apply(list, env, w, fuel) ==
    LET evaluated == eval_ast(List(list), env, w, fuel)
    IN  IF evaluated.st # "Ok" THEN evaluated
        ELSE IF evaluated.val.tag = "List"
        THEN LET sym == Head(evaluated.val.l)
                 rest == Tail(evaluated.val.l)
             IN  IF sym.tag = "Sym" THEN call_sym(sym.s, rest, env, evaluated.w)
                 ELSE IF sym.tag = "Fn" THEN call_fn(sym, rest, env, evaluated.w, fuel)
                 ELSE Err(BadFunctionDesignatorOf(sym), evaluated.w)
        ELSE Abort("list evaluated to non list", evaluated.w)

\* eval.rs:10-58: the dispatch of eval
eval_match(ast, env, w, fuel) ==
    IF ast.tag = "List"
    THEN IF Len(ast.l) = 0 THEN Ok(ast, w)
         ELSE IF IsSym(ast.l[1], "def!") THEN handle_def(env, ast.l, w, fuel)
         ELSE IF IsSym(ast.l[1], "let*") THEN handle_let(env, ast.l, w, fuel)
         ELSE IF IsSym(ast.l[1], "fn*") THEN handle_fn(env, ast.l, w, fuel)
         ELSE IF IsSym(ast.l[1], "do") THEN handle_do(env, ast.l, w, fuel)
         ELSE eval_apply(ast.l, env, w, fuel)
    ELSE eval_ast(ast, env, w, fuel)

\* eval: one more frame of the call stack, the dispatch, and the record of
\* the call.
eval(ast, env, w, fuel) ==
    IF fuel = 0 THEN Abort("stack overflow", w)
    ELSE LET r == eval_match(ast, env, w, fuel - 1)
         IN  [r EXCEPT !.w.log = Append(@, CallRec(ast, env, w, r, fuel))]

\* eval.rs:76-82: the loop of eval_ast over a list
eval_list(list, evaluated, env, w, fuel) ==
    IF Len(list) = 0 THEN Ok(List(evaluated), w)
    ELSE LET r == eval(Head(list), env, w, fuel)
         IN  IF r.st # "Ok" THEN r
             ELSE eval_list(Tail(list), Append(evaluated, r.val), env, r.w, fuel)

\* eval_ast giving nil for a symbol that nothing binds.
eval_ast_nil(ast, env, w, fuel) ==
    IF ast.tag = "Sym"
    THEN LET env_val == get(env, ast.s, w.h)
         IN  IF env_val.k # "None"
             THEN IF env_val.k = "NativeFn" THEN Ok(Sym(ast.s), w)
                  ELSE Ok(env_val.v, w)
             ELSE Ok(Nil, w)
    ELSE IF ast.tag \in {"Nil", "True", "False", "Str", "Int"} THEN Ok(ast, w)
    ELSE IF ast.tag = "List" THEN eval_list(ast.l, <<>>, env, w, fuel)
    ELSE IF ast.tag \in {"Vector", "AssocArray"} THEN Abort("not implemented", w)
    ELSE Abort("unreachable", w)

\* eval_ast giving the symbol itself for a symbol that nothing binds.
eval_ast_self(ast, env, w, fuel) ==
    IF ast.tag = "Sym"
    THEN LET env_val == get(env, ast.s, w.h)
         IN  IF env_val.k # "None"
             THEN IF env_val.k = "NativeFn" THEN Ok(Sym(ast.s), w)
                  ELSE Ok(env_val.v, w)
             ELSE Ok(ast, w)
    ELSE IF ast.tag \in {"Nil", "True", "False", "Str", "Int"} THEN Ok(ast, w)
    ELSE IF ast.tag = "List" THEN eval_list(ast.l, <<>>, env, w, fuel)
    ELSE IF ast.tag \in {"Vector", "AssocArray"} THEN Abort("not implemented", w)
    ELSE Abort("unreachable", w)

\* eval_ast
eval_ast(ast, env, w, fuel) ==
    IF ast.tag = "Sym"
    THEN LET env_val == get(env, ast.s, w.h)
         IN  IF env_val.k # "None"
             THEN IF env_val.k = "NativeFn" THEN Ok(Sym(ast.s), w)
                  ELSE Ok(env_val.v, w)
             ELSE Err(SymbolNotFound(ast.s), w)
    ELSE IF ast.tag \in {"Nil", "True", "False", "Str", "Int"} THEN Ok(ast, w)
    ELSE IF ast.tag = "List" THEN eval_list(ast.l, <<>>, env, w, fuel)
    ELSE IF ast.tag \in {"Vector", "AssocArray"} THEN Abort("not implemented", w)
    ELSE Abort("unreachable", w)

\* handle_def writing into the frame that already binds the name, when one
\* of the chain does (assignment instead of definition).
handle_def_assign(env, list, w, fuel) ==
    IF Len(list) # 3 THEN Err(InvalidArgs, w)
    ELSE IF list[2].tag = "Sym"
    THEN LET evaluated == eval(list[3], env, w, fuel)
             found == find(env, list[2].s, evaluated.w.h)
             target == IF found = 0 THEN env ELSE found
         IN  IF evaluated.st # "Ok" THEN evaluated
             ELSE Ok(evaluated.val,
                     [evaluated.w EXCEPT !.h = set(target, list[2].s, evaluated.val, @)])
    ELSE Err(NotASymbol, w)

\* handle_def evaluating the value expression before it looks at the name.
handle_def_eager(env, list, w, fuel) ==
    IF Len(list) # 3 THEN Err(InvalidArgs, w)
    ELSE LET evaluated == eval(list[3], env, w, fuel)
         IN  IF evaluated.st # "Ok" THEN evaluated
             ELSE IF list[2].tag = "Sym"
             THEN Ok(evaluated.val,
                     [evaluated.w EXCEPT !.h = set(env, list[2].s, evaluated.val, @)])
             ELSE Err(NotASymbol, evaluated.w)

\* handle_def
handle_def(env, list, w, fuel) ==
    IF Len(list) # 3 THEN Err(InvalidArgs, w)
    ELSE IF list[2].tag = "Sym"
    THEN LET evaluated == eval(list[3], env, w, fuel)
         IN  IF evaluated.st # "Ok" THEN evaluated
             ELSE Ok(evaluated.val,
                     [evaluated.w EXCEPT !.h = set(env, list[2].s, evaluated.val, @)])
    ELSE Err(NotASymbol, w)

\* let_loop with each value expression evaluated in the enclosing frame
\* (simultaneous instead of sequential binding).
let_loop_outer_eval(vars, child_env, w, fuel, i) ==
    IF i > Len(vars) THEN Ok(Nil, w)
    ELSE IF vars[i].tag = "Sym"
    THEN LET evaluated == eval(vars[i + 1], w.h[child_env].parent, w, fuel)
         IN  IF evaluated.st # "Ok" THEN evaluated
             ELSE let_loop(vars, child_env,
                           [evaluated.w EXCEPT
                               !.h = set(child_env, vars[i].s, evaluated.val, @)],
                           fuel, i + 2)
    ELSE Err(NotASymbol, w)

\* let_loop with each name defined in the enclosing frame instead of the
\* child frame.
let_loop_outer_set(vars, child_env, w, fuel, i) ==
    IF i > Len(vars) THEN Ok(Nil, w)
    ELSE IF vars[i].tag = "Sym"
    THEN LET evaluated == eval(vars[i + 1], child_env, w, fuel)
         IN  IF evaluated.st # "Ok" THEN evaluated
             ELSE let_loop(vars, child_env,
                           [evaluated.w EXCEPT
                               !.h = set(@[child_env].parent, vars[i].s, evaluated.val, @)],
                           fuel, i + 2)
    ELSE Err(NotASymbol, w)

\* eval.rs:119-128: the loop of handle_let over the binding pairs
let_loop(vars, child_env, w, fuel, i) ==
    IF i > Len(vars) THEN Ok(Nil, w)
    ELSE IF vars[i].tag = "Sym"
    THEN LET evaluated == eval(vars[i + 1], child_env, w, fuel)
         IN  IF evaluated.st # "Ok" THEN evaluated
             ELSE let_loop(vars, child_env,
                           [evaluated.w EXCEPT
                               !.h = set(child_env, vars[i].s, evaluated.val, @)],
                           fuel, i + 2)
    ELSE Err(NotASymbol, w)

\* handle_let finding the odd length only when the loop runs out of pairs.
handle_let_odd_late(env, list, w, fuel) ==
    IF Len(list) # 3 THEN Err(InvalidArgs, w)
    ELSE IF list[2].tag = "List"
    THEN LET vars == list[2].l
             child_env == Len(w.h) + 1
             w1 == [w EXCEPT !.h = Append(@, NewFrame(env, {}))]
             b == let_loop(SubSeq(vars, 1, Len(vars) - (Len(vars) % 2)),
                           child_env, w1, fuel, 1)
         IN  IF b.st # "Ok" THEN b
             ELSE IF Len(vars) % 2 # 0 THEN Err(InvalidArgs, b.w)
             ELSE eval(list[3], child_env, b.w, fuel)
    ELSE Err(NotAList, w)

\* handle_let
handle_let(env, list, w, fuel) ==
    IF Len(list) # 3 THEN Err(InvalidArgs, w)
    ELSE IF list[2].tag = "List"
    THEN LET vars == list[2].l
             child_env == Len(w.h) + 1
             w1 == [w EXCEPT !.h = Append(@, NewFrame(env, {}))]
         IN  IF Len(vars) % 2 # 0 THEN Err(InvalidArgs, w1)
             ELSE LET b == let_loop(vars, child_env, w1, fuel, 1)
                  IN  IF b.st # "Ok" THEN b
                      ELSE eval(list[3], child_env, b.w, fuel)
    ELSE Err(NotAList, w)

\* handle_fn with the closure holding a copy of the frame as it is when the
\* closure is made, instead of the frame itself.
handle_fn_snapshot(env, list, w, fuel) ==
    IF Len(list) # 3 THEN Err(InvalidArgs, w)
    ELSE IF list[2].tag = "List"
    THEN LET vars == list[2].l
         IN  IF \E i \in 1..Len(vars) : vars[i].tag # "Sym" THEN Err(NotASymbol, w)
             ELSE Ok(MalFn(Len(w.h) + 1, list[3], [i \in 1..Len(vars) |-> vars[i].s]),
                     [w EXCEPT !.h = Append(@, @[env])])
    ELSE Err(NotAList, w)

\* handle_fn leaving out the parameters that are not symbols.
handle_fn_skip(env, list, w, fuel) ==
    IF Len(list) # 3 THEN Err(InvalidArgs, w)
    ELSE IF list[2].tag = "List"
    THEN LET vars == SelectSeq(list[2].l, LAMBDA v : v.tag = "Sym")
         IN  Ok(MalFn(env, list[3], [i \in 1..Len(vars) |-> vars[i].s]), w)
    ELSE Err(NotAList, w)

\* handle_fn
handle_fn(env, list, w, fuel) ==
    IF Len(list) # 3 THEN Err(InvalidArgs, w)
    ELSE IF list[2].tag = "List"
    THEN LET vars == list[2].l
         IN  IF \E i \in 1..Len(vars) : vars[i].tag # "Sym" THEN Err(NotASymbol, w)
             ELSE Ok(MalFn(env, list[3], [i \in 1..Len(vars) |-> vars[i].s]), w)
    ELSE Err(NotAList, w)

\* do_loop going on after an element that failed.
do_loop_ignore_err(list, ret, env, w, fuel) ==
    IF Len(list) = 0 THEN Ok(ret, w)
    ELSE LET r == eval(Head(list), env, w, fuel)
         IN  IF r.st = "Abort" THEN r
             ELSE do_loop(Tail(list), IF r.st = "Ok" THEN r.val ELSE ret, env, r.w, fuel)

\* eval.rs:165-167: the loop of handle_do
do_loop(list, ret, env, w, fuel) ==
    IF Len(list) = 0 THEN Ok(ret, w)
    ELSE LET r == eval(Head(list), env, w, fuel)
         IN  IF r.st # "Ok" THEN r
             ELSE do_loop(Tail(list), r.val, env, r.w, fuel)

\* handle_do undoing what its elements defined when one of them fails.
handle_do_rollback(env, list, w, fuel) ==
    LET r == do_loop(Tail(list), Nil, env, w, fuel)
    IN  IF r.st = "Err" THEN [r EXCEPT !.w.h = w.h] ELSE r

\* handle_do
handle_do(env, list, w, fuel) == do_loop(Tail(list), Nil, env, w, fuel)

(***************************************************************************)
(* Reader (reader.rs).  A text is a sequence of characters, each a string   *)
(* of length one; an iterator is the sequence of what is left to read.     *)
(***************************************************************************)
\* ParseError
EOF == [tag |-> "EOF"]
UnxpectedToken(s) == [tag |-> "UnxpectedToken", tok |-> s]
UnknownEscapeSequence(c) == [tag |-> "UnknownEscapeSequence", c |-> c]
UnexpectedNewline == [tag |-> "UnexpectedNewline"]

\* reader::Result, with the end of the process as a third outcome
POk(v) == [st |-> "Ok", val |-> v]
PErr(e) == [st |-> "Err", val |-> e]
PAbort(m) == [st |-> "Abort", val |-> [tag |-> "Panic", msg |-> m]]

\* Token
LeftParen == [t |-> "LeftParen"]
RightParen == [t |-> "RightParen"]
LeftBracket == [t |-> "LeftBracket"]
RightBracket == [t |-> "RightBracket"]
LeftCurly == [t |-> "LeftCurly"]
RightCurly == [t |-> "RightCurly"]
SingleQuote == [t |-> "SingleQuote"]
Tick == [t |-> "Tick"]
TokInt(i) == [t |-> "Int", i |-> i]
TokStr(s) == [t |-> "Str", s |-> s]
TokLit(l) == [t |-> "Lit", s |-> l]

\* The character U+0060 (the backquote), which a string of this language
\* cannot hold.
TickChar == "<backquote>"

\* char::is_whitespace, for the characters of ASCII
is_whitespace(c) == c \in {" ", "\n", "\t", "\r"}

Digits == <<"0", "1", "2", "3", "4", "5", "6", "7", "8", "9">>

is_digit(c) == \E i \in 1..10 : Digits[i] = c

to_digit(c) == (CHOOSE i \in 1..10 : Digits[i] = c) - 1

\* read_number: the loop over the digits that follow; v and num_found are the
\* variables of the loop, (d, 1) after a first digit d and (0, 0) after a
\* minus sign.  The result is Some(v) as <<v>> and None as <<>>; st is
\* "Abort" where v * 10 + num does not fit i64 in a build with overflow
\* checks, and the value wraps in a build without.
RECURSIVE read_number(_, _, _)
read_number(it, v, num_found) ==
    IF Len(it) > 0 /\ is_digit(Head(it))
    THEN LET m == v * 10
             r == wrap(m) + to_digit(Head(it))
         IN  IF overflow_checks /\ ~in_i64(m)
             THEN [st |-> "Abort", msg |-> "attempt to multiply with overflow", it |-> Tail(it)]
             ELSE IF overflow_checks /\ ~in_i64(r)
             THEN [st |-> "Abort", msg |-> "attempt to add with overflow", it |-> Tail(it)]
             ELSE read_number(Tail(it), wrap(r), num_found + 1)
    ELSE [st |-> "Ok", num |-> IF num_found > 0 THEN <<v>> ELSE <<>>, it |-> it]

\* read_comment: the iterator after the comment; the text of the comment is
\* dropped by tokenize.
RECURSIVE read_comment(_)
read_comment(it) ==
    IF Len(it) = 0 THEN it
    ELSE IF Head(it) = "\n" THEN Tail(it)
    ELSE read_comment(Tail(it))

\* read_string_loop keeping the backslash and what follows it as they are.
RECURSIVE read_string_loop(_, _)
read_string_raw(it, s) ==
    IF Len(it) = 0 THEN [st |-> "Err", val |-> EOF, it |-> it]
    ELSE IF Head(it) = "\n" THEN [st |-> "Err", val |-> UnexpectedNewline, it |-> Tail(it)]
    ELSE IF Head(it) = "\"" THEN [st |-> "Ok", val |-> s, it |-> Tail(it)]
    ELSE read_string_loop(Tail(it), s \o Head(it))

\* read_string: the loop over the characters after the opening quote; s is
\* the string built so far.
read_string_loop(it, s) ==
    IF Len(it) = 0 THEN [st |-> "Err", val |-> EOF, it |-> it]
    ELSE LET c == Head(it)
             rest == Tail(it)
         IN  IF c = "\n" THEN [st |-> "Err", val |-> UnexpectedNewline, it |-> rest]
             ELSE IF c = "\\"
             THEN IF Len(rest) = 0 THEN [st |-> "Err", val |-> EOF, it |-> rest]
                  ELSE LET nc == Head(rest)
                       IN  IF nc = "\"" THEN read_string_loop(Tail(rest), s \o "\"")
                           ELSE IF nc = "n" THEN read_string_loop(Tail(rest), s \o "\n")
                           ELSE IF nc = "\\" THEN read_string_loop(Tail(rest), s \o "\\")
                           ELSE [st |-> "Err", val |-> UnknownEscapeSequence(nc),
                                 it |-> rest]
             ELSE IF c = "\"" THEN [st |-> "Ok", val |-> s, it |-> rest]
             ELSE read_string_loop(rest, s \o c)

read_string(it) == read_string_loop(it, "")

\* The characters that end a bare literal (reader.rs:238), besides whitespace.
LiteralEnd == {"(", ")", "[", "]", "{", "}", "\"", "'", ";", TickChar, "~"}

\* read_literal: the loop over the characters that follow first_char.
RECURSIVE read_literal_loop(_, _)
read_literal_loop(it, s) ==
    IF Len(it) = 0 \/ Head(it) \in LiteralEnd \/ is_whitespace(Head(it))
    THEN [s |-> s, it |-> it]
    ELSE read_literal_loop(Tail(it), s \o Head(it))

read_literal(it, first_char) == read_literal_loop(it, first_char)

\* tokenize: the loop over the characters; result is the tokens so far.
RECURSIVE tokenize_loop(_, _)
tokenize_loop(it, result) ==
    IF Len(it) = 0 THEN POk(result)
    ELSE LET c == Head(it)
             rest == Tail(it)
         IN  IF c = "(" THEN tokenize_loop(rest, Append(result, LeftParen))
             ELSE IF c = ")" THEN tokenize_loop(rest, Append(result, RightParen))
             ELSE IF c = "[" THEN tokenize_loop(rest, Append(result, LeftBracket))
             ELSE IF c = "]" THEN tokenize_loop(rest, Append(result, RightBracket))
             ELSE IF c = "{" THEN tokenize_loop(rest, Append(result, LeftCurly))
             ELSE IF c = "}" THEN tokenize_loop(rest, Append(result, RightCurly))
             ELSE IF c = "'" THEN tokenize_loop(rest, Append(result, SingleQuote))
             ELSE IF c = TickChar THEN tokenize_loop(rest, Append(result, Tick))
             ELSE IF c = "\""
             THEN LET str == read_string(rest)
                  IN  IF str.st # "Ok" THEN PErr(str.val)
                      ELSE tokenize_loop(str.it, Append(result, TokStr(str.val)))
             ELSE IF c = ";" THEN tokenize_loop(read_comment(rest), result)
             ELSE IF c = "-"
             THEN LET n == read_number(rest, 0, 0)
                  IN  IF n.st = "Abort" THEN PAbort(n.msg)
                      ELSE IF Len(n.num) > 0
                      THEN IF overflow_checks /\ ~in_i64(-n.num[1])
                           THEN PAbort("attempt to negate with overflow")
                           ELSE tokenize_loop(n.it, Append(result, TokInt(wrap(-n.num[1]))))
                      ELSE LET lit == read_literal(rest, c)
                           IN  tokenize_loop(lit.it, Append(result, TokLit(lit.s)))
             ELSE IF is_digit(c)
             THEN LET n == read_number(rest, to_digit(c), 1)
                  IN  IF n.st = "Abort" THEN PAbort(n.msg)
                      ELSE tokenize_loop(n.it, Append(result, TokInt(n.num[1])))
             ELSE IF is_whitespace(c) \/ c = "," THEN tokenize_loop(rest, result)
             ELSE LET lit == read_literal(rest, c)
                  IN  tokenize_loop(lit.it, Append(result, TokLit(lit.s)))

tokenize(input) == tokenize_loop(input, <<>>)

\* read_atom: Some(value) is <<value>>, None is <<>>.
read_atom(it) ==
    IF Len(it) = 0 THEN [st |-> "Ok", val |-> <<>>, it |-> it]
    ELSE LET tok == Head(it)
         IN  IF tok.t = "Int" THEN [st |-> "Ok", val |-> <<MalInt(tok.i)>>, it |-> Tail(it)]
             ELSE IF tok.t = "Str" THEN [st |-> "Ok", val |-> <<Str(tok.s)>>, it |-> Tail(it)]
             ELSE IF tok.t = "Lit"
             THEN LET atom == IF tok.s = "nil" THEN Nil
                              ELSE IF tok.s = "true" THEN True
                              ELSE IF tok.s = "false" THEN False
                              ELSE Sym(tok.s)
                  IN  [st |-> "Ok", val |-> <<atom>>, it |-> Tail(it)]
             ELSE [st |-> "Err", val |-> UnxpectedToken(tok.t), it |-> Tail(it)]

RECURSIVE read_form(_), read_seq(_, _, _)

\* read_seq taking any closing token for the end of the sequence.
read_seq_any_close(it, until, res) ==
    IF Len(it) = 0 THEN [st |-> "Err", val |-> EOF, it |-> it]
    ELSE IF Head(it) \in {RightParen, RightBracket, RightCurly}
    THEN [st |-> "Ok", val |-> res, it |-> Tail(it)]
    ELSE LET f == read_form(it)
         IN  IF f.st # "Ok" THEN f
             ELSE read_seq(f.it, until, res \o f.val)

\* read_seq: the loop up to the token until; res is the forms read so far.
read_seq(it, until, res) ==
    IF Len(it) = 0 THEN [st |-> "Err", val |-> EOF, it |-> it]
    ELSE IF Head(it) = until THEN [st |-> "Ok", val |-> res, it |-> Tail(it)]
    ELSE LET f == read_form(it)
         IN  IF f.st # "Ok" THEN f
             ELSE read_seq(f.it, until, res \o f.val)

\* read_form
read_form(it) ==
    IF Len(it) = 0 THEN [st |-> "Ok", val |-> <<>>, it |-> it]
    ELSE LET tok == Head(it)
         IN  IF tok = SingleQuote \/ tok = Tick
             THEN [st |-> "Abort", val |-> [tag |-> "Panic", msg |-> "not implemented"],
                   it |-> it]
             ELSE IF tok = LeftParen
             THEN LET seq == read_seq(Tail(it), RightParen, <<>>)
                  IN  IF seq.st # "Ok" THEN seq
                      ELSE [st |-> "Ok", val |-> <<List(seq.val)>>, it |-> seq.it]
             ELSE IF tok = LeftBracket
             THEN LET seq == read_seq(Tail(it), RightBracket, <<>>)
                  IN  IF seq.st # "Ok" THEN seq
                      ELSE [st |-> "Ok", val |-> <<Vector(seq.val)>>, it |-> seq.it]
             ELSE IF tok = LeftCurly
             THEN LET seq == read_seq(Tail(it), RightCurly, <<>>)
                  IN  IF seq.st # "Ok" THEN seq
                      ELSE [st |-> "Ok", val |-> <<AssocArray(seq.val)>>, it |-> seq.it]
             ELSE read_atom(it)

\* read_str: the loop over the tokens; ret is the forms read so far.
RECURSIVE read_str_loop(_, _)
read_str_loop(it, ret) ==
    IF Len(it) = 0 THEN POk(ret)
    ELSE LET f == read_form(it)
         IN  IF f.st # "Ok" THEN [st |-> f.st, val |-> f.val]
             ELSE read_str_loop(f.it, ret \o f.val)

read_str(input) ==
    LET tokens == tokenize(input)
    IN  IF tokens.st # "Ok" THEN tokens ELSE read_str_loop(tokens.val, <<>>)

(***************************************************************************)
(* The session (main.rs)                                                   *)
(***************************************************************************)
\* main.rs:72-74: the root frame is the first frame of the arena.
RootEnv == 1

\* The frames a value holds a reference to (the env of a closure).
RECURSIVE Refs(_)
Refs(v) ==
    IF v.tag = "Fn" THEN {v.env}
    ELSE IF v.tag \in {"List", "Vector", "AssocArray"}
         THEN UNION {Refs(v.l[i]) : i \in 1..Len(v.l)}
         ELSE {}

FrameRefs(f) == {f.parent} \cup UNION {Refs(f.data[n]) : n \in DOMAIN f.data}

\* The frames dropped when a top-level eval returns: a frame is freed when its
\* last holder is gone (Rc), so the frames at the end of the arena that no
\* remaining frame refers to are released.
RECURSIVE Reclaim(_)
Reclaim(h) ==
    LET n == Len(h)
    IN  IF n > 1 /\ n \notin UNION {FrameRefs(h[i]) : i \in 1..(n - 1)}
        THEN Reclaim(SubSeq(h, 1, n - 1))
        ELSE h

\* Forms the session reads (what reader::read_str hands to eval).
x_ == Sym("x")
y_ == Sym("y")
a_ == Sym("a")
b_ == Sym("b")
f_ == Sym("f")
g_ == Sym("g")
p_ == Sym("p")
plus_ == Sym("+")
nosuch_ == Sym("nosuch")
Def(n, e) == List(<<Sym("def!"), n, e>>)
Let(bs, e) == List(<<Sym("let*"), List(bs), e>>)
Fn(ps, e) == List(<<Sym("fn*"), List(ps), e>>)
Do(es) == List(<<Sym("do")>> \o es)
App(es) == List(es)

\* (def! x 1), (def! x 2)
DefX1 == Def(x_, MalInt(1))
DefX2 == Def(x_, MalInt(2))
\* (fn* (a) (+ a x)) and (def! f (fn* (a) (+ a x)))
FnAX == Fn(<<a_>>, App(<<plus_, a_, x_>>))
DefF == Def(f_, FnAX)
\* (f 5), (f), (f 1 2)
CallF5 == App(<<f_, MalInt(5)>>)
CallF0 == App(<<f_>>)
CallF2 == App(<<f_, MalInt(1), MalInt(2)>>)
\* (do (def! x 1) (def! f (fn* (a) (+ a x))) (def! x 2) (f 5))
Scenario == Do(<<DefX1, DefF, DefX2, CallF5>>)
\* (def! + 5), +, (+ 1 2)
DefPlus == Def(plus_, MalInt(5))
Add12 == App(<<plus_, MalInt(1), MalInt(2)>>)
\* (def! p +), (p 1 2), (let* (+ 5) (p 1 2)), (let* (+ 5) +)
DefP == Def(p_, plus_)
CallP == App(<<p_, MalInt(1), MalInt(2)>>)
LetPlusCallP == Let(<<plus_, MalInt(5)>>, CallP)
LetPlus == Let(<<plus_, MalInt(5)>>, plus_)
\* [1 2], (+ 1 {}), (def! x [1]), (let* (a {}) a), ((fn* () [1]))
Vec12 == Vector(<<MalInt(1), MalInt(2)>>)
AddMap == App(<<plus_, MalInt(1), AssocArray(<<>>)>>)
DefVec == Def(x_, Vector(<<MalInt(1)>>))
LetMap == Let(<<a_, AssocArray(<<>>)>>, a_)
CallVec == App(<<Fn(<<>>, Vector(<<MalInt(1)>>))>>)
\* (fn* (a) (+ a y)), (def! g (fn* (a) (+ a y))),
\* (def! g (let* (y 1) (fn* (a) (+ a y)))), (g 10), (let* (y 5) (g 10))
FnAY == Fn(<<a_>>, App(<<plus_, a_, y_>>))
DefG == Def(g_, FnAY)
DefGLet == Def(g_, Let(<<y_, MalInt(1)>>, FnAY))
CallG == App(<<g_, MalInt(10)>>)
LetCallG == Let(<<y_, MalInt(5)>>, CallG)
\* (def! a (do (def! x 1) 2))
DefNested == Def(a_, Do(<<DefX1, MalInt(2)>>))
\* (let* (a 3) (def! x (+ a 1)))
LetDef == Let(<<a_, MalInt(3)>>, Def(x_, App(<<plus_, a_, MalInt(1)>>)))
\* (let* (a 7 b (+ a 1)) (+ a b))
LetSeq == Let(<<a_, MalInt(7), b_, App(<<plus_, a_, MalInt(1)>>)>>,
              App(<<plus_, a_, b_>>))
\* (let* (x 3) x), (let* (x 3 b nosuch) x)
LetX == Let(<<x_, MalInt(3)>>, x_)
LetFail == Let(<<x_, MalInt(3), b_, nosuch_>>, x_)
\* (do (def! x 2) nosuch (def! x 1)), (do), (do (def! x 1) (+ x 1))
DoFail == Do(<<DefX2, nosuch_, DefX1>>)
DoNone == Do(<<>>)
DoDef == Do(<<DefX1, App(<<plus_, x_, MalInt(1)>>)>>)

\* (def! x), (def! y (def! x 2) 3), (def! 1 (def! y 2)), (def! y nosuch)
DefShort == List(<<Sym("def!"), x_>>)
DefLong == List(<<Sym("def!"), y_, DefX2, MalInt(3)>>)
DefNotSym == Def(MalInt(1), Def(y_, MalInt(2)))
DefFail == Def(y_, nosuch_)
\* (let* (a 1)), (let* 1 2), (let* (a nosuch b) a), (let* (1 2) 3),
\* (let* (a 1 2 3) a), (let* (a nosuch 1 2) a)
LetShort == List(<<Sym("let*"), List(<<a_, MalInt(1)>>)>>)
LetNotList == List(<<Sym("let*"), MalInt(1), MalInt(2)>>)
LetOdd == Let(<<a_, nosuch_, b_>>, a_)
LetNotSym == Let(<<MalInt(1), MalInt(2)>>, MalInt(3))
LetNotSymLate == Let(<<a_, MalInt(1), MalInt(2), MalInt(3)>>, a_)
LetFailFirst == Let(<<a_, nosuch_, MalInt(1), MalInt(2)>>, a_)
\* (fn* (a)), (fn* 1 2), (fn* (a 1) a), (fn* (a b) (def! x 2))
FnShort == List(<<Sym("fn*"), List(<<a_>>)>>)
FnNotList == List(<<Sym("fn*"), MalInt(1), MalInt(2)>>)
FnNotSym == Fn(<<a_, MalInt(1)>>, a_)
FnLazy == Fn(<<a_, b_>>, DefX2)
\* (do nil true false "s" 1 ()), (+ nosuch 1)
Atoms == Do(<<Nil, True, False, Str("s"), MalInt(1), List(<<>>)>>)
AddNosuch == App(<<plus_, nosuch_, MalInt(1)>>)
\* (1 2 3), ("s" 1), (nil), (true x), (() 1), ((+ 1 2) 3), (1 nosuch)
CallInt == App(<<MalInt(1), MalInt(2), MalInt(3)>>)
CallStr == App(<<Str("s"), MalInt(1)>>)
CallNil == App(<<Nil>>)
CallTrue == App(<<True, x_>>)
CallList == App(<<List(<<>>), MalInt(1)>>)
CallSum == App(<<Add12, MalInt(3)>>)
CallIntFail == App(<<MalInt(1), nosuch_>>)
\* (= f f), (= f g), (= (fn* () 1) (fn* () 1)), (= (list 1 +) (list 1 +))
EqFF == App(<<Sym("="), f_, f_>>)
EqFG == App(<<Sym("="), f_, g_>>)
EqFns == App(<<Sym("="), Fn(<<>>, MalInt(1)), Fn(<<>>, MalInt(1))>>)
EqLists == App(<<Sym("="), App(<<Sym("list"), MalInt(1), plus_>>),
                 App(<<Sym("list"), MalInt(1), plus_>>)>>)

Forms ==
    { DefX1, DefX2, DefF, CallF5, CallF0, CallF2, Scenario,
      DefPlus, plus_, x_, Add12, DefP, CallP, LetPlusCallP, LetPlus,
      Vec12, AddMap, DefVec, LetMap, CallVec,
      DefG, DefGLet, CallG, LetCallG,
      DefNested, LetDef, LetSeq, LetX, LetFail, DoFail, DoNone, DoDef,
      DefShort, DefLong, DefNotSym, DefFail,
      LetShort, LetNotList, LetOdd, LetNotSym, LetNotSymLate, LetFailFirst,
      FnShort, FnNotList, FnNotSym, FnLazy,
      Atoms, AddNosuch,
      CallInt, CallStr, CallNil, CallTrue, CallList, CallSum, CallIntFail,
      EqFF, EqFG, EqFns, EqLists }

\* main.rs read: the first form of the text, or nil when it holds none.
read(input) ==
    LET v == read_str(input)
    IN  IF v.st # "Ok" THEN v
        ELSE IF Len(v.val) > 0 THEN POk(v.val[1])
        ELSE POk(Nil)

\* InputValidator::validate; a panic of the reader ends the process.
validate(input) ==
    LET r == read(input)
    IN  IF r.st = "Abort" THEN "Abort"
        ELSE IF r.st = "Err" THEN (IF r.val = EOF THEN "Incomplete" ELSE "Invalid")
        ELSE "Valid"

\* What the session knows of the line at the prompt: nothing until the line
\* is entered, then the text entered, its tokens, its forms and the verdict
\* of the validator.
NoRead == [input |-> <<>>, toks |-> POk(<<>>), forms |-> POk(<<>>), verdict |-> "None"]

\* The characters typed at the prompt.
Chars == {"(", ")", "[", "]", "\"", "\\", "n", ",", " ", ";", "\n", "'"}

\* The state after main built the root frame.  overflow_checks is how the
\* program was built (rustc -C overflow-checks, on in a debug build and off in
\* a release build); it never changes.
Init ==
    /\ heap = <<NewFrame(0, Builtins)>>
    /\ calls = <<>>
    /\ alive = TRUE
    /\ line = <<>>
    /\ parsed = NoRead
    /\ overflow_checks \in BOOLEAN

\* main.rs rep: evaluate one form in the root frame; a panic ends the process.
rep(ast) ==
    /\ alive
    /\ Len(heap) <= MaxFrames
    /\ LET r == eval(ast, RootEnv, [h |-> heap, log |-> <<>>], MaxDepth)
       IN  /\ calls' = r.w.log
           /\ heap' = Reclaim(r.w.h)
           /\ alive' = (r.st # "Abort")
    /\ UNCHANGED <<line, parsed, overflow_checks>>

Next == \E ast \in Forms : rep(ast)

Spec == Init /\ [][Next]_svars

\* main.rs:76 readline: one more character of the line is typed; what was
\* shown for the line before is gone.
type_char(c) ==
    /\ alive
    /\ Len(line) < MaxLine
    /\ line' = Append(line, c)
    /\ parsed' = NoRead
    /\ calls' = <<>>
    /\ UNCHANGED <<heap, alive, overflow_checks>>

\* The line is entered: the validator reads it; an incomplete or invalid line
\* stays at the prompt, a valid one is returned by readline and given to rep,
\* which reads it again and evaluates its first form in the root frame.
enter ==
    /\ alive
    /\ Len(heap) <= MaxFrames
    /\ LET verdict == validate(line)
       IN  /\ parsed' = [input |-> line, toks |-> tokenize(line),
                         forms |-> read_str(line), verdict |-> verdict]
           /\ IF verdict = "Valid"
              THEN LET r == eval(read(line).val, RootEnv,
                                 [h |-> heap, log |-> <<>>], MaxDepth)
                   IN  /\ calls' = r.w.log
                       /\ heap' = Reclaim(r.w.h)
                       /\ alive' = (r.st # "Abort")
                       /\ line' = <<>>
              ELSE /\ alive' = (verdict # "Abort")
                   /\ UNCHANGED <<heap, calls, line>>
    /\ UNCHANGED overflow_checks

ReaderNext == (\E c \in Chars : type_char(c)) \/ enter

\* No digit is typed, so nothing is calculated while a typed line is read or
\* evaluated, and the two builds take the same steps: one stands for both.
ReaderInit == Init /\ overflow_checks

ReaderSpec == ReaderInit /\ [][ReaderNext]_svars

\* The outcome of the last top-level form.
Top == calls[Len(calls)]

(***************************************************************************)
(* Reading the trace.  eval appends the record of a call when the call     *)
(* returns, so the calls made by call k are the records just before k that *)
(* are nested deeper than k.                                               *)
(***************************************************************************)
Idx == 1..Len(calls)

\* j is a call made, directly or not, during call k.
Within(j, k) == j < k /\ \A m \in j..(k - 1) : calls[m].depth > calls[k].depth

RECURSIVE SortedSeq(_)
SortedSeq(S) ==
    IF S = {} THEN <<>>
    ELSE LET m == CHOOSE i \in S : \A j \in S : i <= j
         IN  <<m>> \o SortedSeq(S \ {m})

\* The calls call k made itself, in the order it made them.
Kids(k) ==
    SortedSeq({j \in Idx : Within(j, k) /\ calls[j].depth = calls[k].depth + 1})

\* The frames on the parent chain of env, env included.
RECURSIVE Chain(_, _)
Chain(env, h) == IF env = 0 THEN {} ELSE {env} \cup Chain(h[env].parent, h)

SpecialForms == {"def!", "let*", "fn*", "do"}

IsForm(ast, name) == ast.tag = "List" /\ Len(ast.l) > 0 /\ IsSym(ast.l[1], name)

\* A list that eval treats as a generic application.
IsApplication(ast) ==
    /\ ast.tag = "List"
    /\ Len(ast.l) > 0
    /\ ~(ast.l[1].tag = "Sym" /\ ast.l[1].s \in SpecialForms)

(***************************************************************************)
(* C1  Name resolution order                                               *)
(***************************************************************************)
\* The nearest frame of the chain that has the name among its own bindings.
RECURSIVE Nearest(_, _, _)
Nearest(env, n, h) ==
    IF env = 0 THEN 0
    ELSE IF n \in DOMAIN h[env].data THEN env
    ELSE Nearest(h[env].parent, n, h)

\* The lookup of the specification: the nearest binding, else the registry.
Lookup(env, n, h) ==
    LET e == Nearest(env, n, h)
    IN  IF e # 0 THEN ValVal(h[e].data[n])
        ELSE IF n \in Builtins THEN NativeFnVal(n)
        ELSE NoneVal

\* C1: in every evaluation of a symbol, Environment::get returns the binding
\* of the nearest frame of the chain that binds the name, and the native
\* function only when no frame binds it; and once (def! n v) has succeeded in
\* a frame, looking n up in that frame gives v.
C1_NameResolution ==
    \A k \in Idx :
        LET c == calls[k]
        IN  /\ c.ast.tag = "Sym" =>
                 get(c.env, c.ast.s, c.hb) = Lookup(c.env, c.ast.s, c.hb)
            /\ (IsForm(c.ast, "def!") /\ c.st = "Ok") =>
                 get(c.env, c.ast.l[2].s, c.ha) = ValVal(c.val)

(***************************************************************************)
(* C2  Native application                                                  *)
(***************************************************************************)
\* The evaluated elements of application k, when all of them evaluated.
Evaluated(k) == [i \in 1..Len(Kids(k)) |-> calls[Kids(k)[i]].val]

AllEvaluated(k) ==
    /\ Len(Kids(k)) >= Len(calls[k].ast.l)
    /\ \A i \in 1..Len(calls[k].ast.l) : calls[Kids(k)[i]].st = "Ok"

\* The arena when the elements of application k have been evaluated.
AfterElements(k) == calls[Kids(k)[Len(calls[k].ast.l)]].ha

\* C2: an application whose evaluated head is a symbol that the native
\* registry holds returns what that native function returns for the evaluated
\* arguments, whatever the chain at the call site binds; a symbol the registry
\* does not hold gives FunctionUndefined.
C2_NativeApplication ==
    \A k \in Idx :
        LET c == calls[k]
        IN  (IsApplication(c.ast) /\ AllEvaluated(k) /\ Evaluated(k)[1].tag = "Sym") =>
                LET name == Evaluated(k)[1].s
                    args == SubSeq(Evaluated(k), 2, Len(c.ast.l))
                    n == defaults(name, args, AfterElements(k))
                IN  IF name \in Builtins
                    THEN c.st = n.st /\ c.val = n.val
                    ELSE c.st = "Err" /\ c.val = FunctionUndefined(name)

(***************************************************************************)
(* C3  Vector and Map expressions                                          *)
(***************************************************************************)
\* C3: every evaluation of a Vector or Map expression, at top level or nested,
\* returns the error UnsupportedExpression to its caller, and the process
\* goes on.
C3_UnsupportedExpression ==
    /\ alive
    /\ \A k \in Idx :
           calls[k].ast.tag \in {"Vector", "AssocArray"} =>
               calls[k].st = "Err" /\ calls[k].val.tag = "UnsupportedExpression"

(***************************************************************************)
(* C4  Closures capture their environment by reference                     *)
(***************************************************************************)
\* Call m applies a closure: every element evaluated, the head to a closure.
AppliesFn(m) ==
    /\ IsApplication(calls[m].ast)
    /\ AllEvaluated(m)
    /\ Evaluated(m)[1].tag = "Fn"

Args(m) == SubSeq(Evaluated(m), 2, Len(calls[m].ast.l))

\* The frame made for the body of the closure that call m applies.
BodyFrame(m) == Len(AfterElements(m)) + 1

\* What evaluating the symbol n gives when the lookup gives v.
SymOutcome(n, v) ==
    IF v.k = "None" THEN [st |-> "Err", val |-> SymbolNotFound(n)]
    ELSE IF v.k = "NativeFn" THEN [st |-> "Ok", val |-> Sym(n)]
    ELSE [st |-> "Ok", val |-> v.v]

\* C4: fn* makes a closure that holds the very frame it is evaluated in and
\* copies nothing; when a closure made in frame E is applied later, a free name
\* of its body resolves as a lookup in E does at the time of the call, so a
\* def! done in E (or an ancestor) after the closure was made is seen.  With
\* (def! x 1) (def! f (fn* (a) (+ a x))) (def! x 2), (f 5) is 7.
C4_CaptureByReference ==
    /\ \A i \in Idx :
           (IsForm(calls[i].ast, "fn*") /\ calls[i].st = "Ok") =>
               /\ calls[i].val.env = calls[i].env
               /\ calls[i].ha = calls[i].hb
    /\ \A i \in Idx : \A m \in Idx :
           (/\ i < m
            /\ IsForm(calls[i].ast, "fn*") /\ calls[i].st = "Ok"
            /\ AppliesFn(m) /\ Evaluated(m)[1] = calls[i].val
            /\ Len(Args(m)) = Len(calls[i].val.binds)) =>
               \A k \in Idx :
                   (/\ Within(k, m)
                    /\ calls[k].env = BodyFrame(m)
                    /\ calls[k].ast.tag = "Sym"
                    /\ calls[k].ast.s \notin DOMAIN calls[k].hb[BodyFrame(m)].data) =>
                       [st |-> calls[k].st, val |-> calls[k].val] =
                           SymOutcome(calls[k].ast.s,
                                      get(calls[i].env, calls[k].ast.s, calls[k].hb))
    /\ (Len(calls) > 0 /\ Top.ast = Scenario) =>
           Top.st = "Ok" /\ Top.val = MalInt(7)
    /\ (Len(calls) > 0 /\ Top.ast = CallF5 /\ Top.st = "Ok") =>
           Top.val = MalInt(5 + Top.hb[RootEnv].data["x"].i)

\* The closure is made, x is redefined in the frame it was made in, and the
\* call made afterwards gives 7.
C4_Witness ==
    /\ Len(calls) > 0 /\ Top.ast = Scenario /\ Top.val = MalInt(7)
    /\ \E i \in Idx : \E j \in Idx : \E m \in Idx :
           /\ i < j /\ j < m
           /\ calls[i].ast = FnAX /\ calls[i].st = "Ok" /\ calls[i].hb[RootEnv].data["x"] = MalInt(1)
           /\ calls[j].ast = DefX2 /\ calls[j].st = "Ok" /\ calls[j].env = calls[i].env
           /\ calls[m].ast = CallF5 /\ calls[m].val = MalInt(7)

(***************************************************************************)
(* C5  Closure application                                                 *)
(***************************************************************************)
\* The value the parameter list binds to name s: that of its last occurrence.
ParamValue(binds, args, s) ==
    args[CHOOSE i \in 1..Len(binds) :
            binds[i] = s /\ \A j \in (i + 1)..Len(binds) : binds[j] # s]

\* C5: applying a closure of k parameters to n evaluated arguments: if n # k
\* the result is InvalidArgs, nothing more is evaluated and no frame is made;
\* if n = k exactly one frame is made, a child of the frame the closure
\* captured, holding the parameters bound to the arguments and nothing else,
\* no existing frame changes, the body is evaluated in that frame and its
\* outcome is the outcome of the application; free names of the body resolve
\* as they do in the captured frame.
C5_ClosureApplication ==
    \A m \in Idx :
        AppliesFn(m) =>
            LET c == calls[m]
                f == Evaluated(m)[1]
                args == Args(m)
                hA == AfterElements(m)
                new == BodyFrame(m)
                kids == Kids(m)
            IN  IF Len(args) # Len(f.binds)
                THEN /\ c.st = "Err" /\ c.val = InvalidArgs
                     /\ Len(kids) = Len(c.ast.l)
                     /\ c.ha = hA
                ELSE /\ Len(kids) = Len(c.ast.l) + 1
                     /\ LET body == calls[kids[Len(kids)]]
                        IN  /\ body.ast = f.body
                            /\ body.env = new
                            /\ Len(body.hb) = Len(hA) + 1
                            /\ SubSeq(body.hb, 1, Len(hA)) = hA
                            /\ body.hb[new].parent = f.env
                            /\ DOMAIN body.hb[new].data = {f.binds[i] : i \in 1..Len(f.binds)}
                            /\ \A i \in 1..Len(f.binds) :
                                   body.hb[new].data[f.binds[i]] =
                                       ParamValue(f.binds, args, f.binds[i])
                            /\ c.st = body.st /\ c.val = body.val /\ c.ha = body.ha
                     /\ \A k \in Idx :
                            (/\ Within(k, m)
                             /\ calls[k].env = new
                             /\ calls[k].ast.tag = "Sym"
                             /\ calls[k].ast.s \notin DOMAIN calls[k].hb[new].data) =>
                                get(new, calls[k].ast.s, calls[k].hb) =
                                    get(f.env, calls[k].ast.s, calls[k].hb)

\* (let* (y 5) (g 10)) with g made where y is 1: the body sees the y of the
\* captured frame, not the y of the caller, and gives 11.
C5_Witness ==
    /\ Len(calls) > 0 /\ Top.ast = LetCallG /\ Top.st = "Ok" /\ Top.val = MalInt(11)
    /\ \E m \in Idx :
           /\ calls[m].ast = CallG /\ AppliesFn(m)
           /\ calls[m].env # Evaluated(m)[1].env
           /\ calls[m].hb[calls[m].env].data["y"] = MalInt(5)

\* (f) and (f 1 2) with f a closure of one parameter: InvalidArgs.
C5_WitnessArity ==
    /\ Len(calls) > 0 /\ Top.ast = CallF2 /\ Top.st = "Err" /\ Top.val = InvalidArgs
    /\ AppliesFn(Len(calls))

(***************************************************************************)
(* C6  The effect of def!                                                  *)
(***************************************************************************)
\* Call k is a def! that succeeded.
DefDone(k) == IsForm(calls[k].ast, "def!") /\ calls[k].st = "Ok"

DefName(k) == calls[k].ast.l[2].s

\* The call that evaluated the value expression of def! k.
DefValue(k) == calls[Kids(k)[1]]

\* The frames of h above env on the parent chain.
Ancestors(env, h) == Chain(h[env].parent, h)

\* C6 as stated: a successful (def! name expr) in frame E returns the value of
\* expr evaluated in E, afterwards E binds name to that value, and every other
\* binding of E and every binding of every ancestor of E is what it was before
\* the def! form was evaluated.
C6_DefChangesOnlyName ==
    \A k \in Idx :
        DefDone(k) =>
            LET c == calls[k]
                E == c.env
            IN  /\ Len(Kids(k)) = 1
                /\ DefValue(k).ast = c.ast.l[3] /\ DefValue(k).env = E
                /\ c.val = DefValue(k).val
                /\ DOMAIN c.ha[E].data = DOMAIN c.hb[E].data \cup {DefName(k)}
                /\ c.ha[E].data[DefName(k)] = c.val
                /\ \A n \in DOMAIN c.hb[E].data \ {DefName(k)} :
                       c.ha[E].data[n] = c.hb[E].data[n]
                /\ \A e \in Ancestors(E, c.hb) : c.ha[e] = c.hb[e]

\* C6 as amended: a successful (def! name expr) in frame E returns the value
\* of expr evaluated in E, afterwards E binds name to that value, every other
\* binding of E is as the evaluation of expr left it (so unchanged unless expr
\* itself holds a def! evaluated in E), every binding of every ancestor of E
\* is what it was before the def! form was evaluated, and no other frame is
\* written by the definition.
C6_DefWritesOwnFrame ==
    \A k \in Idx :
        DefDone(k) =>
            LET c == calls[k]
                E == c.env
                v == DefValue(k)
            IN  /\ Len(Kids(k)) = 1
                /\ v.ast = c.ast.l[3] /\ v.env = E /\ v.hb = c.hb
                /\ c.val = v.val
                /\ DOMAIN c.ha[E].data = DOMAIN v.ha[E].data \cup {DefName(k)}
                /\ c.ha[E].data[DefName(k)] = c.val
                /\ \A n \in DOMAIN v.ha[E].data \ {DefName(k)} :
                       c.ha[E].data[n] = v.ha[E].data[n]
                /\ c.ha[E].parent = v.ha[E].parent
                /\ Len(c.ha) = Len(v.ha)
                /\ \A e \in (1..Len(c.ha)) \ {E} : c.ha[e] = v.ha[e]
                /\ \A e \in Ancestors(E, c.hb) : c.ha[e] = c.hb[e]

\* (let* (a 3) (def! x (+ a 1))) while the root frame binds x: the def! is
\* evaluated in the child frame, whose ancestor binds the same name.
C6_Witness ==
    \E k \in Idx :
        /\ DefDone(k)
        /\ calls[k].env # RootEnv
        /\ DefName(k) \in DOMAIN calls[k].hb[RootEnv].data
        /\ calls[k].ha[calls[k].env].data[DefName(k)] = MalInt(4)
        /\ calls[k].ha[RootEnv].data[DefName(k)] # MalInt(4)

(***************************************************************************)
(* C7  let* binds sequentially in one child frame                          *)
(***************************************************************************)
\* Call k is a let* whose shape passes the checks of handle_let.
LetShaped(k) ==
    /\ IsForm(calls[k].ast, "let*")
    /\ Len(calls[k].ast.l) = 3
    /\ calls[k].ast.l[2].tag = "List"
    /\ Len(calls[k].ast.l[2].l) % 2 = 0
    /\ \A i \in 1..Len(calls[k].ast.l[2].l) :
           i % 2 = 1 => calls[k].ast.l[2].l[i].tag = "Sym"

\* C7: a let* in frame env makes exactly one child frame of env, empty at
\* first; the value expressions are evaluated left to right in that child
\* frame, the expression of pair i in the arena in which pair i-1 has just
\* been defined in the child frame; the body is evaluated in the same child
\* frame after the last pair is defined and its outcome is the outcome of the
\* let*; a value expression that fails ends the let* with its error.
\* (let* (a 7 b (+ a 1)) (+ a b)) is 15.
C7_LetSequential ==
    /\ \A k \in Idx :
           (LetShaped(k) /\ calls[k].st \in {"Ok", "Err"}) =>
               LET c == calls[k]
                   bindings == c.ast.l[2].l
                   np == Len(bindings) \div 2
                   child == Len(c.hb) + 1
                   kids == Kids(k)
                   kid(i) == calls[kids[i]]
               IN  /\ Len(kids) >= 1 /\ Len(kids) <= np + 1
                   /\ kid(1).hb = Append(c.hb, NewFrame(c.env, {}))
                   /\ \A i \in 1..Len(kids) :
                          /\ kid(i).env = child
                          /\ kid(i).ast = IF i <= np THEN bindings[2 * i] ELSE c.ast.l[3]
                          /\ i > 1 =>
                                 /\ kid(i - 1).st = "Ok"
                                 /\ kid(i).hb = set(child, bindings[2 * i - 3].s,
                                                    kid(i - 1).val, kid(i - 1).ha)
                   /\ kid(Len(kids)).st = "Ok" => Len(kids) = np + 1
                   /\ c.st = kid(Len(kids)).st
                   /\ c.val = kid(Len(kids)).val
                   /\ c.ha = kid(Len(kids)).ha
    /\ (Len(calls) > 0 /\ Top.ast = LetSeq) =>
           Top.st = "Ok" /\ Top.val = MalInt(15)

\* (let* (a 7 b (+ a 1)) (+ a b)) gave 15; the second value expression looked
\* a up in the child frame, where the first pair had put it.
C7_Witness ==
    /\ Len(calls) > 0 /\ Top.ast = LetSeq /\ Top.val = MalInt(15)
    /\ \E j \in Idx :
           /\ calls[j].ast = a_ /\ calls[j].env = Len(Top.hb) + 1
           /\ calls[j].val = MalInt(7)
           /\ "b" \notin DOMAIN calls[j].hb[calls[j].env].data

(***************************************************************************)
(* C8  let* leaves the enclosing frames as they were                       *)
(***************************************************************************)
\* C8: a let* form evaluated in frame E, whether it returns a value or an
\* error, leaves E and every ancestor of E exactly as they were, so a lookup
\* in E of a name the let* bound, or that a def! in it defined, gives what it
\* gave before.
C8_LetLeavesOuter ==
    \A k \in Idx :
        (IsForm(calls[k].ast, "let*") /\ calls[k].st \in {"Ok", "Err"}) =>
            LET c == calls[k]
            IN  /\ \A e \in Chain(c.env, c.hb) : c.ha[e] = c.hb[e]
                /\ \A n \in {"x", "y", "a", "b", "+"} :
                       get(c.env, n, c.ha) = get(c.env, n, c.hb)

\* (let* (a 3) (def! x (+ a 1))) succeeded while the root frame binds x: the
\* def! defined x as 4 in the child frame and the root still has its x.
C8_Witness ==
    /\ Len(calls) > 0 /\ Top.ast = LetDef /\ Top.st = "Ok" /\ Top.val = MalInt(4)
    /\ "x" \in DOMAIN Top.hb[RootEnv].data
    /\ heap[RootEnv].data["x"] = Top.hb[RootEnv].data["x"]
    /\ heap[RootEnv].data["x"] # MalInt(4)
    /\ "a" \notin DOMAIN heap[RootEnv].data

\* (let* (x 3 b nosuch) x) failed after binding x, while the root binds x.
C8_WitnessFailed ==
    /\ Len(calls) > 0 /\ Top.ast = LetFail /\ Top.st = "Err"
    /\ "x" \in DOMAIN Top.hb[RootEnv].data
    /\ heap[RootEnv].data["x"] = Top.hb[RootEnv].data["x"]

(***************************************************************************)
(* C9  No rollback on error                                                *)
(***************************************************************************)
\* def! j is the last definition of its name in its frame during call k.
LastDefWithin(j, k) ==
    /\ Within(j, k) /\ DefDone(j)
    /\ \A i \in Idx :
           (Within(i, k) /\ i > j /\ DefDone(i) /\ calls[i].env = calls[j].env) =>
               DefName(i) # DefName(j)

\* C9: when a form fails with an EvalError, every def! that completed while it
\* was evaluated is still in effect when the error is returned: the frame
\* still binds the name to the value defined last; and the session keeps the
\* frames as the failed form left them, so the next form is evaluated in an
\* environment that holds those bindings.
C9_NoRollback ==
    /\ \A k \in Idx :
           calls[k].st = "Err" =>
               \A j \in Idx :
                   LastDefWithin(j, k) =>
                       /\ DefName(j) \in DOMAIN calls[k].ha[calls[j].env].data
                       /\ calls[k].ha[calls[j].env].data[DefName(j)] = calls[j].val
    /\ (Len(calls) > 0 /\ Top.st = "Err") =>
           \A e \in 1..Len(heap) : heap[e] = Top.ha[e]
    /\ (Len(calls) > 0 /\ Top.st = "Err") =>
           \A j \in Idx :
               (LastDefWithin(j, Len(calls)) /\ calls[j].env = RootEnv) =>
                   /\ DefName(j) \in DOMAIN heap[RootEnv].data
                   /\ heap[RootEnv].data[DefName(j)] = calls[j].val

\* (do (def! x 2) nosuch (def! x 1)) failed at nosuch, and x, which was not 2
\* before, is 2 afterwards.
C9_Witness ==
    /\ Len(calls) > 0 /\ Top.ast = DoFail
    /\ Top.st = "Err" /\ Top.val = SymbolNotFound("nosuch")
    /\ "x" \in DOMAIN Top.hb[RootEnv].data /\ Top.hb[RootEnv].data["x"] = MalInt(1)
    /\ heap[RootEnv].data["x"] = MalInt(2)

(***************************************************************************)
(* C10  do                                                                 *)
(***************************************************************************)
\* C10: do evaluates the elements after its head in env, left to right, each
\* in the arena the one before it left; it stops at the first element that
\* fails and returns its error; otherwise it returns the value of the last
\* element, or Nil when there is none; what the elements defined is in the
\* arena it returns.  (do) is nil; (do (def! x 1) (+ x 1)) is 2 and leaves x
\* defined as 1.
C10_DoSequence ==
    /\ \A k \in Idx :
           (IsForm(calls[k].ast, "do") /\ calls[k].st \in {"Ok", "Err"}) =>
               LET c == calls[k]
                   els == Tail(c.ast.l)
                   kids == Kids(k)
                   kid(i) == calls[kids[i]]
               IN  /\ Len(kids) <= Len(els)
                   /\ \A i \in 1..Len(kids) :
                          /\ kid(i).ast = els[i]
                          /\ kid(i).env = c.env
                          /\ kid(i).hb = IF i = 1 THEN c.hb ELSE kid(i - 1).ha
                          /\ i < Len(kids) => kid(i).st = "Ok"
                   /\ IF Len(kids) = 0
                      THEN Len(els) = 0 /\ c.st = "Ok" /\ c.val = Nil /\ c.ha = c.hb
                      ELSE /\ kid(Len(kids)).st = "Ok" => Len(kids) = Len(els)
                           /\ c.st = kid(Len(kids)).st
                           /\ c.val = kid(Len(kids)).val
                           /\ c.ha = kid(Len(kids)).ha
    /\ (Len(calls) > 0 /\ Top.ast = DoNone) => Top.st = "Ok" /\ Top.val = Nil
    /\ (Len(calls) > 0 /\ Top.ast = DoDef) =>
           /\ Top.st = "Ok" /\ Top.val = MalInt(2)
           /\ heap[RootEnv].data["x"] = MalInt(1)

\* (do (def! x 1) (+ x 1)) gave 2 where x was 2 before, and x is 1 now.
C10_Witness ==
    /\ Len(calls) > 0 /\ Top.ast = DoDef /\ Top.st = "Ok" /\ Top.val = MalInt(2)
    /\ "x" \in DOMAIN Top.hb[RootEnv].data /\ Top.hb[RootEnv].data["x"] = MalInt(2)
    /\ heap[RootEnv].data["x"] = MalInt(1)

\* (do (def! x 2) nosuch (def! x 1)) stopped at nosuch.
C10_WitnessFailed ==
    /\ Len(calls) > 0 /\ Top.ast = DoFail /\ Top.st = "Err"
    /\ Len(Kids(Len(calls))) = 2
    /\ heap[RootEnv].data["x"] = MalInt(2)

(***************************************************************************)
(* C11  def! shape errors                                                  *)
(***************************************************************************)
\* C11: a def! list that has not 3 elements fails InvalidArgs, and one of 3
\* elements whose second is no symbol fails NotASymbol; in both cases nothing
\* is evaluated and no frame changes.  When the value expression fails, the
\* def! returns that error and writes nothing: every frame is as the failed
\* evaluation left it, so the def! has not defined the name.
C11_DefShape ==
    \A k \in Idx :
        IsForm(calls[k].ast, "def!") =>
            LET c == calls[k]
                kids == Kids(k)
            IN  /\ Len(c.ast.l) # 3 =>
                       /\ c.st = "Err" /\ c.val = InvalidArgs
                       /\ Len(kids) = 0 /\ c.ha = c.hb
                /\ (Len(c.ast.l) = 3 /\ c.ast.l[2].tag # "Sym") =>
                       /\ c.st = "Err" /\ c.val = NotASymbol
                       /\ Len(kids) = 0 /\ c.ha = c.hb
                /\ (Len(c.ast.l) = 3 /\ c.ast.l[2].tag = "Sym" /\ Len(kids) = 1
                      /\ calls[kids[1]].st = "Err") =>
                       /\ c.st = "Err" /\ c.val = calls[kids[1]].val
                       /\ c.ha = calls[kids[1]].ha
                       /\ c.ast.l[2].s \notin DOMAIN c.hb[c.env].data
                            => (c.ast.l[2].s \in DOMAIN c.ha[c.env].data
                                  <=> \E j \in Idx :
                                        /\ Within(j, k) /\ DefDone(j)
                                        /\ calls[j].env = c.env
                                        /\ DefName(j) = c.ast.l[2].s)

\* (def! 1 (def! y 2)) failed NotASymbol where y was not bound, and y is
\* still not bound.
C11_Witness ==
    /\ Len(calls) > 0 /\ Top.ast = DefNotSym
    /\ Top.st = "Err" /\ Top.val = NotASymbol
    /\ "y" \notin DOMAIN heap[RootEnv].data

\* (def! y (def! x 2) 3) failed InvalidArgs where x was 1, and x is still 1.
C11_WitnessLong ==
    /\ Len(calls) > 0 /\ Top.ast = DefLong
    /\ Top.st = "Err" /\ Top.val = InvalidArgs
    /\ "x" \in DOMAIN heap[RootEnv].data /\ heap[RootEnv].data["x"] = MalInt(1)

\* (def! y nosuch) returned the error of nosuch and y is not bound.
C11_WitnessFail ==
    /\ Len(calls) > 0 /\ Top.ast = DefFail
    /\ Top.st = "Err" /\ Top.val = SymbolNotFound("nosuch")
    /\ "y" \notin DOMAIN heap[RootEnv].data

(***************************************************************************)
(* C12  let* shape errors                                                  *)
(***************************************************************************)
\* The pairs of the binding list of let* k whose name is no symbol.
BadPairs(k) ==
    {p \in 1..(Len(calls[k].ast.l[2].l) \div 2) :
        calls[k].ast.l[2].l[2 * p - 1].tag # "Sym"}

FirstBadPair(k) == CHOOSE p \in BadPairs(k) : \A q \in BadPairs(k) : p <= q

\* What handle_let checks before it evaluates anything: the number of
\* elements, the kind of the second element, the parity of the binding list.
LetStaticErrors(k) ==
    LET c == calls[k]
    IN  /\ Len(c.ast.l) # 3 =>
               c.st = "Err" /\ c.val = InvalidArgs /\ Len(Kids(k)) = 0
        /\ (Len(c.ast.l) = 3 /\ c.ast.l[2].tag # "List") =>
               c.st = "Err" /\ c.val = NotAList /\ Len(Kids(k)) = 0
        /\ (Len(c.ast.l) = 3 /\ c.ast.l[2].tag = "List"
              /\ Len(c.ast.l[2].l) % 2 = 1) =>
               c.st = "Err" /\ c.val = InvalidArgs /\ Len(Kids(k)) = 0

\* Call k is a let* of 3 elements with an even binding list in which some
\* name is no symbol, and it did not end the process.
LetWithBadName(k) ==
    /\ IsForm(calls[k].ast, "let*")
    /\ Len(calls[k].ast.l) = 3
    /\ calls[k].ast.l[2].tag = "List"
    /\ Len(calls[k].ast.l[2].l) % 2 = 0
    /\ BadPairs(k) # {}
    /\ calls[k].st # "Abort"

\* C12 as stated: a let* list that has not 3 elements fails InvalidArgs; one
\* whose second element is no list fails NotAList; one whose binding list has
\* odd length fails InvalidArgs with no binding evaluated; and one with a
\* binding pair whose name is no symbol fails NotASymbol.
C12_LetShape ==
    \A k \in Idx :
        IsForm(calls[k].ast, "let*") =>
            /\ LetStaticErrors(k)
            /\ LetWithBadName(k) =>
                   calls[k].st = "Err" /\ calls[k].val = NotASymbol

\* C12 as amended: the first three checks as stated; a binding pair whose
\* name is no symbol makes the let* fail NotASymbol when the loop reaches it:
\* the value expressions of the pairs before it have been evaluated in order,
\* and when one of them fails the let* returns that error instead.
C12_LetShapeInOrder ==
    \A k \in Idx :
        IsForm(calls[k].ast, "let*") =>
            /\ LetStaticErrors(k)
            /\ LetWithBadName(k) =>
                   LET c == calls[k]
                       p == FirstBadPair(k)
                       kids == Kids(k)
                       kid(i) == calls[kids[i]]
                   IN  /\ Len(kids) <= p - 1
                       /\ \A i \in 1..Len(kids) :
                              /\ kid(i).ast = c.ast.l[2].l[2 * i]
                              /\ i < Len(kids) => kid(i).st = "Ok"
                       /\ c.st = "Err"
                       /\ IF Len(kids) = p - 1 /\ (p = 1 \/ kid(p - 1).st = "Ok")
                          THEN c.val = NotASymbol
                          ELSE /\ kid(Len(kids)).st = "Err"
                               /\ c.val = kid(Len(kids)).val

\* (let* (a 1 2 3) a) failed NotASymbol after it had evaluated the value of a.
C12_Witness ==
    /\ Len(calls) > 0 /\ Top.ast = LetNotSymLate
    /\ Top.st = "Err" /\ Top.val = NotASymbol
    /\ Len(Kids(Len(calls))) = 1

\* (let* (a nosuch b) a) failed InvalidArgs and did not evaluate nosuch.
C12_WitnessOdd ==
    /\ Len(calls) > 0 /\ Top.ast = LetOdd
    /\ Top.st = "Err" /\ Top.val = InvalidArgs
    /\ Len(calls) = 1

\* (let* (a nosuch 1 2) a) failed with the error of nosuch.
C12_WitnessFailFirst ==
    /\ Len(calls) > 0 /\ Top.ast = LetFailFirst
    /\ Top.st = "Err" /\ Top.val = SymbolNotFound("nosuch")

(***************************************************************************)
(* C13  fn* shape and result                                               *)
(***************************************************************************)
\* C13: a fn* list that has not 3 elements fails InvalidArgs; one whose
\* second element is no list fails NotAList; one whose parameter list holds
\* an element that is no symbol fails NotASymbol; any other returns the
\* closure of the parameter names in order, the body as written and the frame
\* of the call.  In every case nothing is evaluated and no frame changes.
C13_FnShape ==
    \A k \in Idx :
        IsForm(calls[k].ast, "fn*") =>
            LET c == calls[k]
                l == c.ast.l
            IN  /\ Len(Kids(k)) = 0
                /\ c.ha = c.hb
                /\ IF Len(l) # 3 THEN c.st = "Err" /\ c.val = InvalidArgs
                   ELSE IF l[2].tag # "List" THEN c.st = "Err" /\ c.val = NotAList
                   ELSE IF \E i \in 1..Len(l[2].l) : l[2].l[i].tag # "Sym"
                        THEN c.st = "Err" /\ c.val = NotASymbol
                   ELSE /\ c.st = "Ok"
                        /\ c.val.tag = "Fn"
                        /\ c.val.env = c.env
                        /\ c.val.body = l[3]
                        /\ Len(c.val.binds) = Len(l[2].l)
                        /\ \A i \in 1..Len(l[2].l) : c.val.binds[i] = l[2].l[i].s

\* (fn* (a b) (def! x 2)) gave a closure of a and b where x was 1, and x is
\* still 1.
C13_Witness ==
    /\ Len(calls) > 0 /\ Top.ast = FnLazy
    /\ Top.st = "Ok" /\ Top.val.binds = <<"a", "b">>
    /\ "x" \in DOMAIN heap[RootEnv].data /\ heap[RootEnv].data["x"] = MalInt(1)

\* (fn* (a 1) a) failed NotASymbol.
C13_WitnessNotSym ==
    /\ Len(calls) > 0 /\ Top.ast = FnNotSym
    /\ Top.st = "Err" /\ Top.val = NotASymbol

(***************************************************************************)
(* C14  Atoms and symbols                                                  *)
(***************************************************************************)
\* C14: nil, true, false, a string and an integer evaluate to themselves and
\* the empty list to the empty list; a symbol that no frame of the chain binds
\* and the registry does not hold fails SymbolNotFound of its name, as an
\* argument too ((+ nosuch 1)); a symbol that Environment::get resolves to a
\* value evaluates to that value, and one it resolves to a native function
\* evaluates to the symbol itself.  None of these changes a frame.
C14_AtomsAndSymbols ==
    /\ \A k \in Idx :
           LET c == calls[k]
           IN  /\ c.ast.tag \in {"Nil", "True", "False", "Str", "Int"} =>
                      c.st = "Ok" /\ c.val = c.ast /\ c.ha = c.hb
               /\ (c.ast.tag = "List" /\ Len(c.ast.l) = 0) =>
                      c.st = "Ok" /\ c.val = c.ast /\ c.ha = c.hb
               /\ c.ast.tag = "Sym" =>
                      LET v == get(c.env, c.ast.s, c.hb)
                      IN  /\ c.ha = c.hb
                          /\ Lookup(c.env, c.ast.s, c.hb) = NoneVal =>
                                 c.st = "Err" /\ c.val = SymbolNotFound(c.ast.s)
                          /\ v.k = "None" => Lookup(c.env, c.ast.s, c.hb) = NoneVal
                          /\ v.k = "Val" => c.st = "Ok" /\ c.val = v.v
                          /\ v.k = "NativeFn" => c.st = "Ok" /\ c.val = c.ast
    /\ (Len(calls) > 0 /\ Top.ast = AddNosuch) =>
           Top.st = "Err" /\ Top.val = SymbolNotFound("nosuch")

\* (+ nosuch 1) failed SymbolNotFound(nosuch) after + had evaluated to itself.
C14_Witness ==
    /\ Len(calls) = 3 /\ Top.ast = AddNosuch
    /\ calls[1].ast = plus_ /\ calls[1].st = "Ok" /\ calls[1].val = plus_
    /\ calls[2].ast = nosuch_ /\ calls[2].st = "Err"
    /\ Top.st = "Err" /\ Top.val = SymbolNotFound("nosuch")

\* (do nil true false "s" 1 ()) evaluated each atom to itself.
C14_WitnessAtoms ==
    /\ Len(calls) = 7 /\ Top.ast = Atoms
    /\ Top.st = "Ok" /\ Top.val = List(<<>>)

\* x evaluated to the value the root frame binds it to.
C14_WitnessValue ==
    /\ Len(calls) = 1 /\ Top.ast = x_
    /\ Top.st = "Ok" /\ Top.val = MalInt(2)

(***************************************************************************)
(* C15  A head that is no function                                         *)
(***************************************************************************)
\* C15: an application all of whose elements evaluate, with a head that
\* evaluates to nil, a boolean, a string, an integer or a list, fails
\* BadFunctionDesignator (of the evaluated head) and changes no frame beyond
\* what evaluating its elements did.  (1 2 3) fails so.
C15_BadDesignator ==
    /\ \A k \in Idx :
           LET c == calls[k]
           IN  (/\ IsApplication(c.ast)
                /\ AllEvaluated(k)
                /\ Evaluated(k)[1].tag \in {"Nil", "True", "False", "Str", "Int", "List"}) =>
                   /\ c.st = "Err"
                   /\ c.val = BadFunctionDesignatorOf(Evaluated(k)[1])
                   /\ Len(Kids(k)) = Len(c.ast.l)
                   /\ c.ha = AfterElements(k)
    /\ (Len(calls) > 0 /\ Top.ast = CallInt) =>
           Top.st = "Err" /\ Top.val.tag = "BadFunctionDesignator"

\* (1 2 3) failed BadFunctionDesignator after its three elements evaluated.
C15_Witness ==
    /\ Len(calls) = 4 /\ Top.ast = CallInt
    /\ Top.st = "Err" /\ Top.val = BadFunctionDesignatorOf(MalInt(1))

\* ((+ 1 2) 3) failed BadFunctionDesignator of 3, the value of its head.
C15_WitnessComputed ==
    /\ Len(calls) > 0 /\ Top.ast = CallSum
    /\ Top.st = "Err" /\ Top.val = BadFunctionDesignatorOf(MalInt(3))

(***************************************************************************)
(* Reading what the reader did.  Entered holds once a line has been        *)
(* entered: parsed is then what the reader made of that line.              *)
(***************************************************************************)
Entered == parsed.verdict # "None"

IsOpen(tok) == tok \in {LeftParen, LeftBracket, LeftCurly}

IsClose(tok) == tok \in {RightParen, RightBracket, RightCurly}

\* The token that closes the sequence tok opens.
Closer(tok) ==
    IF tok = LeftParen THEN RightParen
    ELSE IF tok = LeftBracket THEN RightBracket
    ELSE RightCurly

\* The bracket structure of a token sequence, read left to right with the
\* stack open of the closers still expected, innermost first: the first
\* closer that is not the one expected, the first quote marker, or, at the
\* end, whether a sequence is still open.
RECURSIVE Scan(_, _)
Scan(toks, open) ==
    IF Len(toks) = 0 THEN (IF Len(open) = 0 THEN POk("balanced") ELSE PErr(EOF))
    ELSE LET tok == Head(toks)
         IN  IF tok = SingleQuote \/ tok = Tick THEN [st |-> "Quote", val |-> tok]
             ELSE IF IsOpen(tok) THEN Scan(Tail(toks), <<Closer(tok)>> \o open)
             ELSE IF IsClose(tok)
             THEN IF Len(open) > 0 /\ Head(open) = tok
                  THEN Scan(Tail(toks), Tail(open))
                  ELSE PErr(UnxpectedToken(tok.t))
             ELSE Scan(Tail(toks), open)

\* The tokens a sequence of forms is written with.
RECURSIVE Flatten(_)
Flatten(forms) ==
    IF Len(forms) = 0 THEN <<>>
    ELSE LET v == Head(forms)
             first == IF v.tag = "List" THEN <<LeftParen>> \o Flatten(v.l) \o <<RightParen>>
                      ELSE IF v.tag = "Vector"
                      THEN <<LeftBracket>> \o Flatten(v.l) \o <<RightBracket>>
                      ELSE IF v.tag = "AssocArray"
                      THEN <<LeftCurly>> \o Flatten(v.l) \o <<RightCurly>>
                      ELSE IF v.tag = "Int" THEN <<TokInt(v.i)>>
                      ELSE IF v.tag = "Str" THEN <<TokStr(v.s)>>
                      ELSE IF v.tag = "Sym" THEN <<TokLit(v.s)>>
                      ELSE IF v.tag = "Nil" THEN <<TokLit("nil")>>
                      ELSE IF v.tag = "True" THEN <<TokLit("true")>>
                      ELSE <<TokLit("false")>>
         IN  first \o Flatten(Tail(forms))

(***************************************************************************)
(* C16  The reader is total                                                *)
(***************************************************************************)
\* C16: whatever text is entered, read_str returns forms or a ParseError and
\* the process goes on; a quote marker in the text is no exception.
C16_ReaderTotal ==
    Entered => parsed.forms.st \in {"Ok", "Err"} /\ parsed.verdict # "Abort"

(***************************************************************************)
(* C17  Which texts are reported as incomplete                             *)
(***************************************************************************)
\* C17: read_str reports ParseError::EOF exactly for the texts whose tokens
\* leave a list, vector or map open at the end; a text that ends inside a
\* string literal gets another error, and the validator does not call it
\* incomplete.
C17_EofMeansOpenSequence ==
    Entered =>
        /\ parsed.forms = PErr(EOF) <=>
               (parsed.toks.st = "Ok" /\ Scan(parsed.toks.val, <<>>) = PErr(EOF))
        /\ parsed.toks.st = "Err" =>
               parsed.toks.val # EOF /\ parsed.verdict # "Incomplete"

(***************************************************************************)
(* C18  A comma is whitespace                                              *)
(***************************************************************************)
\* C18: in a text with no string literal and no comment, putting a space in
\* the place of any comma leaves the token sequence as it is.
C18_CommaIsWhitespace ==
    (Entered /\ \A i \in 1..Len(parsed.input) : parsed.input[i] \notin {"\"", ";"}) =>
        \A i \in 1..Len(parsed.input) :
            parsed.input[i] = "," =>
                tokenize([parsed.input EXCEPT ![i] = " "]) = parsed.toks

(***************************************************************************)
(* C19  Sequence parsing                                                   *)
(***************************************************************************)
\* C19: for a text that tokenizes and whose tokens are read without meeting
\* a quote marker: when every closer matches the innermost open sequence and
\* none is left open, read_str returns the forms in source order, each
\* ( ... ) a List, each [ ... ] a Vector and each { ... } a Map of the forms
\* between, so that writing the forms back gives the tokens; the first closer
\* that matches no open sequence, or not the innermost one, gives
\* UnxpectedToken of it; and tokens that end inside an open sequence give EOF.
\* An error is the whole result.
C19_SequenceParsing ==
    (Entered /\ parsed.toks.st = "Ok") =>
        LET sc == Scan(parsed.toks.val, <<>>)
        IN  sc.st # "Quote" =>
                IF sc.st = "Ok"
                THEN /\ parsed.forms.st = "Ok"
                     /\ Flatten(parsed.forms.val) = parsed.toks.val
                ELSE parsed.forms = sc

\* ([]) was read as a list holding an empty vector.
C19_Witness ==
    /\ Entered
    /\ parsed.input = <<"(", "[", "]", ")">>
    /\ parsed.forms = POk(<<List(<<Vector(<<>>)>>)>>)

\* (] failed: the closer is not the one of the innermost open sequence.
C19_WitnessMismatch ==
    /\ Entered
    /\ parsed.input = <<"(", "]">>
    /\ parsed.forms = PErr(UnxpectedToken("RightBracket"))

\* n) failed at the closer at top level, and ((n) ended inside a sequence.
C19_WitnessTopLevel ==
    /\ Entered
    /\ parsed.input = <<"n", ")">>
    /\ parsed.forms = PErr(UnxpectedToken("RightParen"))

C19_WitnessOpen ==
    /\ Entered
    /\ parsed.input = <<"(", "(", "n", ")">>
    /\ parsed.forms = PErr(EOF)

\* n () was read as two forms in order.
C19_WitnessOrder ==
    /\ Entered
    /\ parsed.input = <<"n", " ", "(", ")">>
    /\ parsed.forms = POk(<<Sym("n"), List(<<>>)>>)

(***************************************************************************)
(* C20  String literal scanning                                            *)
(***************************************************************************)
\* The text that stands for the characters cs inside a string literal.
RECURSIVE Escape(_)
Escape(cs) ==
    IF Len(cs) = 0 THEN <<>>
    ELSE (IF Head(cs) = "\"" THEN <<"\\", "\"">>
          ELSE IF Head(cs) = "\n" THEN <<"\\", "n">>
          ELSE IF Head(cs) = "\\" THEN <<"\\", "\\">>
          ELSE <<Head(cs)>>) \o Escape(Tail(cs))

\* The string of the characters cs.
RECURSIVE Join(_)
Join(cs) == IF Len(cs) = 0 THEN "" ELSE Head(cs) \o Join(Tail(cs))

\* C20: take the entered text apart anywhere into the characters before and
\* the characters after.  The characters before, written with the escapes
\* \" \n \\ for quote, newline and backslash and as they are otherwise and
\* followed by a quote, are scanned to exactly those characters, and the scan
\* stops behind the quote; followed instead by a raw newline the scan fails
\* UnexpectedNewline, and followed by a backslash and a character c other
\* than quote, n and backslash it fails UnknownEscapeSequence(c).  Between
\* quotes they tokenize to the one string token, whatever ; ( ) [ ] , and
\* blanks they hold.  A text that begins with a quote is tokenized as
\* read_string scans it.
C20_StringScanning ==
    Entered =>
        /\ \A i \in 0..Len(parsed.input) :
               LET before == SubSeq(parsed.input, 1, i)
                   after == SubSeq(parsed.input, i + 1, Len(parsed.input))
                   closed == read_string(Escape(before) \o <<"\"">> \o after)
                   broken == read_string(Escape(before) \o <<"\n">> \o after)
                   escaped == read_string(Escape(before) \o <<"\\">> \o after)
               IN  /\ closed.st = "Ok" /\ closed.val = Join(before) /\ closed.it = after
                   /\ broken.st = "Err" /\ broken.val = UnexpectedNewline
                   /\ (Len(after) > 0 /\ after[1] \notin {"\"", "n", "\\"}) =>
                          escaped.st = "Err"
                            /\ escaped.val = UnknownEscapeSequence(after[1])
                   /\ tokenize(<<"\"">> \o Escape(before) \o <<"\"">>)
                        = POk(<<TokStr(Join(before))>>)
        /\ (Len(parsed.input) > 0 /\ parsed.input[1] = "\"") =>
               LET str == read_string(Tail(parsed.input))
               IN  IF str.st = "Err" THEN parsed.toks = PErr(str.val)
                   ELSE parsed.toks.st = "Ok" => parsed.toks.val[1] = TokStr(str.val)

\* "\n" was tokenized as the string of one newline.
C20_Witness ==
    /\ Entered
    /\ parsed.input = <<"\"", "\\", "n", "\"">>
    /\ parsed.toks = POk(<<TokStr("\n")>>)

\* "(;" was tokenized as one string, "\, failed UnknownEscapeSequence and a
\* raw newline in a string failed UnexpectedNewline.
C20_WitnessInside ==
    /\ Entered
    /\ parsed.input = <<"\"", "(", ";", "\"">>
    /\ parsed.toks = POk(<<TokStr("(;")>>)

C20_WitnessUnknown ==
    /\ Entered
    /\ parsed.input = <<"\"", "\\", ",">>
    /\ parsed.toks = PErr(UnknownEscapeSequence(","))

C20_WitnessNewline ==
    /\ Entered
    /\ parsed.input = <<"\"", "n", "\n">>
    /\ parsed.toks = PErr(UnexpectedNewline)

(***************************************************************************)
(* Printing (types.rs: Display; main.rs: print) and reading back           *)
(***************************************************************************)
\* Largest number of characters of a string that is printed.
MaxStr == 2

\* The characters of the strings that are printed.
StrChars == {"n", "1", " ", ";", "(", ",", "\"", "\\", "\n"}

StrTexts == UNION {[1..n -> StrChars] : n \in 0..MaxStr}

\* str::chars, for the strings over StrChars of at most MaxStr characters
CharsOf == [s \in {Join(cs) : cs \in StrTexts} |-> CHOOSE cs \in StrTexts : Join(cs) = s]

chars(s) == CharsOf[s]

\* Display for i64: the decimal digits of the magnitude, behind a minus sign
\* when the value is negative.
RECURSIVE fmt_digits(_)
fmt_digits(n) ==
    IF n < 10 THEN <<Digits[n + 1]>>
    ELSE Append(fmt_digits(n \div 10), Digits[(n % 10) + 1])

fmt_i64(i) == IF i < 0 THEN <<"-">> \o fmt_digits(-i) ELSE fmt_digits(i)

\* Display for MalAtom
fmt_atom(a) ==
    IF a.tag = "Nil" THEN <<"n", "i", "l">>
    ELSE IF a.tag = "True" THEN <<"t", "r", "u", "e">>
    ELSE IF a.tag = "False" THEN <<"f", "a", "l", "s", "e">>
    ELSE IF a.tag = "Sym" THEN chars(a.s)
    ELSE IF a.tag = "Str" THEN <<"\"">> \o chars(a.s) \o <<"\"">>
    ELSE fmt_i64(a.i)

\* The atoms that are printed: every integer, every string over StrChars of
\* at most MaxStr characters, nil, true and false.
AtomValues ==
    {Nil, True, False} \cup {MalInt(i) : i \in MinInt..MaxInt}
        \cup {Str(Join(cs)) : cs \in StrTexts}

\* main.rs print: the text written for a value.
print(res) == fmt_atom(res)

\* The session starts with the printed text of an atom at the prompt.
PrintInit ==
    /\ heap = <<NewFrame(0, Builtins)>>
    /\ calls = <<>>
    /\ alive = TRUE
    /\ \E res \in AtomValues : line = print(res)
    /\ parsed = NoRead
    /\ overflow_checks \in BOOLEAN

PrintNext == enter

PrintSpec == PrintInit /\ [][PrintNext]_svars

\* A string without quote, backslash or newline.
EscapeFree(cs) == \A i \in 1..Len(cs) : cs[i] \notin {"\"", "\\", "\n"}

\* The atoms of the round trip: integers, escape-free strings, nil, true, false.
RoundTripAtom(v) == v.tag = "Str" => EscapeFree(chars(v.s))

\* C21: whenever the line entered is the printed text of an integer, of an
\* escape-free string or of nil, true or false, reading it yields the
\* one-element sequence holding that value.
C21_RoundTrip ==
    \A v \in AtomValues :
        (Entered /\ RoundTripAtom(v) /\ parsed.input = fmt_atom(v))
            => parsed.forms = POk(<<v>>)

\* The round trip of every such atom but the least integer, whose magnitude
\* does not fit i64 while read_number accumulates it.
C21_RoundTripAboveMin ==
    \A v \in AtomValues \ {MalInt(MinInt)} :
        (Entered /\ RoundTripAtom(v) /\ parsed.input = fmt_atom(v))
            => parsed.forms = POk(<<v>>)

\* The least integer read back in a build without overflow checks, in one
\* with them, and a string and a negative integer read back.
C21_WitnessMinWraps ==
    /\ Entered /\ ~overflow_checks
    /\ parsed.input = fmt_atom(MalInt(MinInt))
    /\ parsed.forms = POk(<<MalInt(MinInt)>>)

C21_WitnessMinPanics ==
    /\ Entered /\ overflow_checks
    /\ parsed.input = fmt_atom(MalInt(MinInt))
    /\ parsed.forms.st = "Abort" /\ ~alive

C21_WitnessStr ==
    /\ Entered
    /\ parsed.input = <<"\"", "(", ";", "\"">>
    /\ parsed.forms = POk(<<Str("(;")>>)

C21_WitnessNegative ==
    /\ Entered
    /\ parsed.input = <<"-", "1", "7">>
    /\ parsed.forms = POk(<<MalInt(-17)>>)

(***************************************************************************)
(* Calls of the native functions, entered at the prompt                    *)
(***************************************************************************)
\* Largest number of arguments of a call.
MaxArgs == 3

\* The arguments: the least and the greatest integer, two small ones, and nil
\* for a value that is no integer.
ArgValues == {MalInt(MinInt), MalInt(-1), MalInt(2), MalInt(MaxInt), Nil}

ArgSeqs == UNION {[1..n -> ArgValues] : n \in 0..MaxArgs}

\* The names of the arithmetic and comparison functions, as typed.
NativeNames ==
    {<<"+">>, <<"-">>, <<"*">>, <<"=">>, <<"<">>, <<"<", "=">>, <<">">>, <<">", "=">>}

\* The text of a call: the name and the arguments behind a space each,
\* between parentheses.
RECURSIVE ArgsText(_)
ArgsText(args) ==
    IF Len(args) = 0 THEN <<>>
    ELSE <<" ">> \o fmt_atom(Head(args)) \o ArgsText(Tail(args))

CallText(name, args) == <<"(">> \o name \o ArgsText(args) \o <<")">>

\* The session starts with the text of a call at the prompt.
NativeInit ==
    /\ heap = <<NewFrame(0, Builtins)>>
    /\ calls = <<>>
    /\ alive = TRUE
    /\ \E name \in NativeNames, args \in ArgSeqs : line = CallText(name, args)
    /\ parsed = NoRead
    /\ overflow_checks \in BOOLEAN

NativeNext == enter

NativeSpec == NativeInit /\ [][NativeNext]_svars

\* Call k applies the native function name: every element evaluated, the head
\* to the symbol name, which the call site resolves to the native function.
AppliesNative(k, name) ==
    /\ IsApplication(calls[k].ast)
    /\ AllEvaluated(k)
    /\ Evaluated(k)[1] = Sym(name)
    /\ get(calls[k].env, name, AfterElements(k)) = NativeFnVal(name)

(***************************************************************************)
(* C22  - with no argument                                                 *)
(***************************************************************************)
\* C22: every call of the native - with no argument fails InvalidArgs.
C22_SubNoArgs ==
    \A k \in Idx :
        (AppliesNative(k, "-") /\ Len(Args(k)) = 0) =>
            calls[k].st = "Err" /\ calls[k].val = InvalidArgs

\* (-) was entered and returned the integer 0.
C22_WitnessZero ==
    /\ Len(calls) > 0
    /\ AppliesNative(Len(calls), "-")
    /\ Len(Args(Len(calls))) = 0
    /\ Top.st = "Ok" /\ Top.val = MalInt(0)

(***************************************************************************)
(* C23  Arithmetic                                                         *)
(***************************************************************************)
\* The first argument minus the sum of the others.
Diff(xs) == Head(xs).i - SumSeq(Tail(xs))

\* The arguments before the first one that is no integer.
RECURSIVE IntPrefix(_)
IntPrefix(xs) ==
    IF Len(xs) = 0 \/ ~is_int(Head(xs)) THEN <<>>
    ELSE <<Head(xs)>> \o IntPrefix(Tail(xs))

\* No 64-bit overflow occurs: every intermediate result of the calculation
\* over the integers xs (the sum, the product or the difference of the first
\* n of them, and the negation of a single one) fits the integer type.
NoOverflow(name, xs) ==
    /\ \A n \in 1..Len(xs) :
           LET p == SubSeq(xs, 1, n)
           IN  in_i64(CASE name = "+" -> SumSeq(p)
                        [] name = "*" -> ProdSeq(p)
                        [] name = "-" -> Diff(p))
    /\ (name = "-" /\ Len(xs) = 1) => in_i64(-xs[1].i)

\* C23: where no overflow occurs, a call of + returns the sum of its integer
\* arguments (0 for none), a call of * their product (1 for none), a call of
\* - with one integer its negation and with more the first minus the sum of
\* the others; and a call of +, - or * with an argument that is no integer
\* fails NotANumber.
C23_Arithmetic ==
    \A k \in Idx : \A name \in {"+", "-", "*"} :
        (AppliesNative(k, name) /\ NoOverflow(name, IntPrefix(Args(k)))) =>
            LET xs == Args(k)
                c == calls[k]
            IN  IF ~AllInts(xs) THEN c.st = "Err" /\ c.val = NotANumber
                ELSE /\ name = "+" => c.st = "Ok" /\ c.val = MalInt(SumSeq(xs))
                     /\ name = "*" => c.st = "Ok" /\ c.val = MalInt(ProdSeq(xs))
                     /\ (name = "-" /\ Len(xs) = 1) =>
                            c.st = "Ok" /\ c.val = MalInt(-xs[1].i)
                     /\ (name = "-" /\ Len(xs) > 1) =>
                            c.st = "Ok" /\ c.val = MalInt(Diff(xs))

\* (- 2) returned -2.
C23_Witness ==
    /\ Len(calls) > 0
    /\ AppliesNative(Len(calls), "-")
    /\ Args(Len(calls)) = <<MalInt(2)>>
    /\ Top.st = "Ok" /\ Top.val = MalInt(-2)

\* (- 2 -1 2) returned 1, (+) returned 0, (*) returned 1, (* 2 -1 2) returned
\* -4, and (+ 2 nil 2) failed NotANumber.
C23_WitnessSub ==
    /\ Len(calls) > 0
    /\ AppliesNative(Len(calls), "-")
    /\ Args(Len(calls)) = <<MalInt(2), MalInt(-1), MalInt(2)>>
    /\ Top.st = "Ok" /\ Top.val = MalInt(1)

C23_WitnessEmptySum ==
    /\ Len(calls) > 0
    /\ AppliesNative(Len(calls), "+")
    /\ Args(Len(calls)) = <<>>
    /\ Top.st = "Ok" /\ Top.val = MalInt(0)

C23_WitnessEmptyProduct ==
    /\ Len(calls) > 0
    /\ AppliesNative(Len(calls), "*")
    /\ Args(Len(calls)) = <<>>
    /\ Top.st = "Ok" /\ Top.val = MalInt(1)

C23_WitnessProduct ==
    /\ Len(calls) > 0
    /\ AppliesNative(Len(calls), "*")
    /\ Args(Len(calls)) = <<MalInt(2), MalInt(-1), MalInt(2)>>
    /\ Top.st = "Ok" /\ Top.val = MalInt(-4)

C23_WitnessNotANumber ==
    /\ Len(calls) > 0
    /\ AppliesNative(Len(calls), "+")
    /\ Args(Len(calls)) = <<MalInt(2), Nil, MalInt(2)>>
    /\ Top.st = "Err" /\ Top.val = NotANumber

\* Outside the range of the claim: (+ MaxInt 2) ends the process in a build
\* with overflow checks and wraps in one without.
C23_WitnessOverflowPanics ==
    /\ Len(calls) > 0
    /\ overflow_checks
    /\ AppliesNative(Len(calls), "+")
    /\ Args(Len(calls)) = <<MalInt(MaxInt), MalInt(2)>>
    /\ Top.st = "Abort" /\ ~alive

C23_WitnessOverflowWraps ==
    /\ Len(calls) > 0
    /\ ~overflow_checks
    /\ AppliesNative(Len(calls), "+")
    /\ Args(Len(calls)) = <<MalInt(MaxInt), MalInt(2)>>
    /\ Top.st = "Ok" /\ Top.val = MalInt(MinInt + 1)

(***************************************************************************)
(* C24  Comparisons                                                        *)
(***************************************************************************)
\* C24: a call of <, <=, >, >= or = with a number of arguments other than 2
\* fails InvalidArgs, whatever the arguments are; a call of <, <=, >, >= with
\* 2 arguments of which one is no integer fails NotANumber; with 2 integers
\* it returns the Boolean of the comparison.
C24_Comparisons ==
    \A k \in Idx : \A name \in {"<", "<=", ">", ">=", "="} :
        AppliesNative(k, name) =>
            LET xs == Args(k)
                c == calls[k]
            IN  IF Len(xs) # 2 THEN c.st = "Err" /\ c.val = InvalidArgs
                ELSE name # "=" =>
                         IF ~AllInts(xs) THEN c.st = "Err" /\ c.val = NotANumber
                         ELSE /\ c.st = "Ok"
                              /\ name = "<" => c.val = FromBool(xs[1].i < xs[2].i)
                              /\ name = "<=" => c.val = FromBool(xs[1].i <= xs[2].i)
                              /\ name = ">" => c.val = FromBool(xs[1].i > xs[2].i)
                              /\ name = ">=" => c.val = FromBool(xs[1].i >= xs[2].i)

\* (< nil) failed InvalidArgs: the number of arguments is looked at first.
C24_Witness ==
    /\ Len(calls) > 0
    /\ AppliesNative(Len(calls), "<")
    /\ Args(Len(calls)) = <<Nil>>
    /\ Top.st = "Err" /\ Top.val = InvalidArgs

\* (<= 2 2) returned true, (> -1 2) returned false, (>= 2 nil) failed
\* NotANumber, and (= 2 2 2) failed InvalidArgs.
C24_WitnessTrue ==
    /\ Len(calls) > 0
    /\ AppliesNative(Len(calls), "<=")
    /\ Args(Len(calls)) = <<MalInt(2), MalInt(2)>>
    /\ Top.st = "Ok" /\ Top.val = True

C24_WitnessFalse ==
    /\ Len(calls) > 0
    /\ AppliesNative(Len(calls), ">")
    /\ Args(Len(calls)) = <<MalInt(-1), MalInt(2)>>
    /\ Top.st = "Ok" /\ Top.val = False

C24_WitnessNotANumber ==
    /\ Len(calls) > 0
    /\ AppliesNative(Len(calls), ">=")
    /\ Args(Len(calls)) = <<MalInt(2), Nil>>
    /\ Top.st = "Err" /\ Top.val = NotANumber

C24_WitnessEqArity ==
    /\ Len(calls) > 0
    /\ AppliesNative(Len(calls), "=")
    /\ Args(Len(calls)) = <<MalInt(2), MalInt(2), MalInt(2)>>
    /\ Top.st = "Err" /\ Top.val = InvalidArgs

(***************************************************************************)
(* C25  = on every pair of values                                          *)
(***************************************************************************)
\* C25: every call of the native = with two arguments returns true or false,
\* whatever the two values are, closures and closures bound into the frame
\* they hold included.
C25_EqTerminates ==
    \A k \in Idx :
        (AppliesNative(k, "=") /\ Len(Args(k)) = 2) =>
            calls[k].st = "Ok" /\ calls[k].val \in {True, False}

\* f is bound in the root frame to a closure that holds the root frame, and
\* (= f f) ended the process.
C25_WitnessCycle ==
    /\ Len(calls) > 0
    /\ Top.ast = EqFF
    /\ AppliesNative(Len(calls), "=")
    /\ Args(Len(calls))[1].tag = "Fn"
    /\ Args(Len(calls))[1].env = RootEnv
    /\ Top.hb[RootEnv].data["f"] = Args(Len(calls))[1]
    /\ Top.st = "Abort" /\ ~alive

\* Two closures made in a root frame that binds no closure are equal, a
\* closure of the root frame and one of a let* frame are not, and two lists
\* are compared element by element.
C25_WitnessClosures ==
    /\ Len(calls) > 0
    /\ Top.ast = EqFns
    /\ Top.st = "Ok" /\ Top.val = True

C25_WitnessDifferent ==
    /\ Len(calls) > 0
    /\ Top.ast = EqFG
    /\ AppliesNative(Len(calls), "=")
    /\ Top.st = "Ok" /\ Top.val = False

C25_WitnessLists ==
    /\ Len(calls) > 0
    /\ Top.ast = EqLists
    /\ Top.st = "Ok" /\ Top.val = True

(***************************************************************************)
(* C26  FunctionUndefined is never returned                                *)
(***************************************************************************)
\* C26: no call of eval returns FunctionUndefined; whenever the head of an
\* application evaluates to a symbol, the symbol is the name of a native
\* function and the lookup of the name at the call site finds the native
\* function, which is called, or a binding that shadows it, and the
\* application fails BadFunctionDesignator of the name.
C26_NoFunctionUndefined ==
    \A k \in Idx :
        LET c == calls[k]
        IN  /\ ~(c.st = "Err" /\ c.val.tag = "FunctionUndefined")
            /\ (IsApplication(c.ast) /\ AllEvaluated(k) /\ Evaluated(k)[1].tag = "Sym") =>
                   LET name == Evaluated(k)[1].s
                       found == get(c.env, name, AfterElements(k))
                   IN  /\ name \in Builtins
                       /\ found # NoneVal
                       /\ found.k = "Val" =>
                              c.st = "Err" /\ c.val = BadFunctionDesignator(name)
                       /\ found.k = "NativeFn" =>
                              LET n == defaults(found.f, Args(k), AfterElements(k))
                              IN  c.st = n.st /\ c.val = n.val

\* p is bound to the symbol +, and (p 1 2) inside (let* (+ 5) ...) found the
\* binding of the let* frame at the call site: BadFunctionDesignator.
C26_Witness ==
    /\ Len(calls) > 0
    /\ Top.ast = LetPlusCallP
    /\ \E k \in Idx :
           /\ calls[k].ast = CallP
           /\ AllEvaluated(k)
           /\ Evaluated(k)[1] = Sym("+")
           /\ get(calls[k].env, "+", AfterElements(k)) = ValVal(MalInt(5))
           /\ calls[k].st = "Err" /\ calls[k].val = BadFunctionDesignator("+")

\* (p 1 2) at top level, where p is bound to the symbol +, called the native
\* function and returned 3.
C26_WitnessNative ==
    /\ Len(calls) > 0
    /\ Top.ast = CallP
    /\ AllEvaluated(Len(calls))
    /\ Evaluated(Len(calls))[1] = Sym("+")
    /\ Top.st = "Ok" /\ Top.val = MalInt(3)

====
